---- MODULE Spec2Model ----
(***************************************************************************)
(* Model of the regfee-calculator server: the calculate-fee API handler    *)
(* (src/pages/api/calculate-fee.ts) with the lazily constructed data-store *)
(* client it obtains (getSupabaseServerClient), run against a data store   *)
(* whose three tables are fixed for the life of a behaviour.               *)
(*                                                                         *)
(* JavaScript values are modelled as records [t, n, s]: t is the runtime   *)
(* type tag, n the numeric payload and s the string payload.  Strings are  *)
(* drawn from a finite universe on which trim() and Number() are tables.   *)
(***************************************************************************)
EXTENDS Integers, Sequences, FiniteSets, TLC

VARIABLES
    scenario,            \* which population of requests the clients send
    configured,          \* process.env holds the data-store URL and key
    flaky,               \* environment: the tables whose queries may fail
    cachedClient,        \* module-level cachedClient: "null" or "client"
    Tbl_Fee_Rules,       \* data store: sequence of fee-rule rows
    Tbl_Agencies,        \* data store: sequence of agency rows
    Tbl_Fee_Components,  \* data store: sequence of fee-component rows
    req,                 \* the request being served (method and body)
    pc,                  \* position of the handler invocation
    units,               \* handler local: sanitised unit list
    feeRules,            \* handler local: matched rule rows
    agencyCurrency,      \* handler local: resolved currency
    componentNameMap,    \* handler local: Map<number, string>
    ruleIndex,           \* handler local: position of the for-of loop
    totalFee,            \* handler local
    feeBreakdown,        \* handler local
    res,                 \* the response written for req
    io,                  \* data-store interactions of this request, in order
    memo,                \* history: one earlier completed exchange
    created,             \* history: how many times createClient has run
    variant,             \* the revision of procedures.ts that is deployed
    apiKey,              \* process.env holds OPENAI_API_KEY
    tbl_agencies,        \* data store: reference rows of the agencies
    Tbl_Procedure_Types, \* data store: reference rows of the procedure types
    agenciesCall,        \* the invocation of the agencies handler
    proceduresCall,      \* the invocation of the procedures handler
    assistantCall,       \* the invocation of the ask-assistant handler
    selectedAgency,      \* page state (useState), as are the eleven below
    selectedProcedure,
    selectedRole,
    unitsState,          \* the page's `units`
    isLoading,
    errorMessage,
    feeResult,
    chatMessages,
    chatInput,
    isChatLoading,
    initialLoad,         \* position of loadInitialData
    calculation,         \* the pending handleCalculate, if any
    chat,                \* the pending handleChatSend, if any
    last                 \* history: the last page event and the state before it

\* the environment and reference data, fixed for the life of a behaviour
envVars == <<variant, apiKey, tbl_agencies, Tbl_Procedure_Types>>

\* the invocations of the other three handlers
otherCalls == <<agenciesCall, proceduresCall, assistantCall>>

\* the form of the page and its last result
formVars == <<selectedAgency, selectedProcedure, selectedRole, unitsState, feeResult>>

\* the page in the browser
uiVars == <<formVars, isLoading, errorMessage, chatMessages, chatInput,
            isChatLoading, initialLoad, calculation, chat, last>>

\* the scenario, the configuration and the tables of the fee calculation
storeVars == <<scenario, configured, flaky, Tbl_Fee_Rules, Tbl_Agencies,
               Tbl_Fee_Components>>

\* everything an invocation of calculate-fee leaves alone
dbVars == <<storeVars, envVars, otherCalls, uiVars>>

\* the state of the calculate-fee invocation
feeCall == <<req, pc, units, feeRules, agencyCurrency, componentNameMap,
             ruleIndex, totalFee, feeBreakdown, res, io, memo>>
locals == <<units, feeRules, agencyCurrency, componentNameMap, ruleIndex,
            totalFee, feeBreakdown>>
vars == <<scenario, configured, flaky, cachedClient, Tbl_Fee_Rules, Tbl_Agencies,
          Tbl_Fee_Components, req, pc, units, feeRules, agencyCurrency,
          componentNameMap, ruleIndex, totalFee, feeBreakdown, res, io, memo,
          created, envVars, otherCalls, uiVars>>

-----------------------------------------------------------------------------
(* Bounds of the explored inputs *)

MaxRules == 2
MaxUnits == 2
MaxSince == 2

-----------------------------------------------------------------------------
(* JavaScript values *)

Undef  == [t |-> "undefined", n |-> 0, s |-> ""]
Null   == [t |-> "null", n |-> 0, s |-> ""]
NaN    == [t |-> "nan", n |-> 0, s |-> ""]
Inf    == [t |-> "infinity", n |-> 0, s |-> ""]
Num(k) == [t |-> "number", n |-> k, s |-> ""]
Str(x) == [t |-> "string", n |-> 0, s |-> x]

IsNullish(v) == v.t \in {"undefined", "null"}

\* a ?? b
Coalesce(a, b) == IF IsNullish(a) THEN b ELSE a

\* typeof v === 'number' (NaN and Infinity are numbers too)
IsNumberType(v) == v.t \in {"number", "nan", "infinity"}

\* String.prototype.trim on the string universe
Trim(x) ==
    CASE x = " A1 "       -> "A1"
      [] x = " National " -> "National"
      [] x = " EUR "      -> "EUR"
      [] x = " Filing "   -> "Filing"
      [] x = " Lodging "  -> "Lodging"
      [] x = " Acme "     -> "Acme"
      [] x = " Renewal "  -> "Renewal"
      [] x = " Which role applies? " -> "Which role applies?"
      [] x = " 42 "       -> "42"
      [] x = " "          -> ""
      [] OTHER            -> x

\* Number(string) on the string universe: blank strings convert to 0,
\* numerals to their value, "Infinity" to Infinity, anything else to NaN
StringToNumber(x) ==
    CASE x = ""         -> Num(0)
      [] x = " "        -> Num(0)
      [] x = "1"        -> Num(1)
      [] x = "2"        -> Num(2)
      [] x = "3"        -> Num(3)
      [] x = "7"        -> Num(7)
      [] x = "20"       -> Num(20)
      [] x = "-1"       -> Num(0 - 1)
      [] x = "Infinity" -> Inf
      [] OTHER          -> NaN

Max(a, b) == IF a >= b THEN a ELSE b

\* toNumber(value, fallback): fallback is itself a value (0 or NaN)
toNumber(value, fallback) ==
    IF value.t = "number"
    THEN value
    ELSE IF value.t = "string" /\ StringToNumber(value.s).t = "number"
         THEN StringToNumber(value.s)
         ELSE fallback

-----------------------------------------------------------------------------
(* Unit sanitisation *)

RECURSIVE normaliseItems(_)
normaliseItems(items) ==
    IF items = <<>>
    THEN <<>>
    ELSE LET unit == Head(items)
             componentId == toNumber(unit.componentId, NaN)
             quantity == toNumber(unit.quantity, NaN)
             rest == normaliseItems(Tail(items))
         IN IF componentId.t = "nan" \/ quantity.t = "nan" \/ quantity.n < 0
            THEN rest
            ELSE <<[componentId |-> componentId.n, quantity |-> quantity.n]>> \o rest

\* rawUnits is [array |-> BOOLEAN, items |-> sequence of raw entries]
normaliseUnits(rawUnits) ==
    IF ~rawUnits.array THEN <<>> ELSE normaliseItems(rawUnits.items)

-----------------------------------------------------------------------------
(* Rule accessors *)

getRuleComponentId(rule) ==
    LET componentId == toNumber(Coalesce(rule.component_id, rule.componentId), NaN)
    IN IF componentId.t = "nan" THEN Null ELSE componentId

getRuleAmount(rule) == Max(0, toNumber(rule.amount, Num(0)).n)

getIncludedQuantity(rule) ==
    Max(0, toNumber(Coalesce(rule.included_quantity, rule.includedQuantity), Num(0)).n)

\* A component name is [text, id, x]: the text, the id interpolated after it
\* (0 when none) and the billed quantity of the " (x{n})" suffix (0 when none).
Name(text, id) == [text |-> text, id |-> id, x |-> 0]

\* Map<number, string> as a set of [id, name] entries, one per id
MapHas(map, id) == \E e \in map : e.id = id
MapGet(map, id) == (CHOOSE e \in map : e.id = id).name
MapSet(map, id, name) == {e \in map : e.id # id} \cup {[id |-> id, name |-> name]}

\* fallbackId is the rule's component id (a number value or Null)
getRuleComponentName(rule, map, fallbackId) ==
    LET fromRule == IF rule.component_name.t = "string"
                    THEN Trim(rule.component_name.s) ELSE ""
        truthyId == fallbackId.t = "number" /\ fallbackId.n # 0
    IN IF fromRule # "" THEN Name(fromRule, 0)
       ELSE IF truthyId /\ MapHas(map, fallbackId.n)
            THEN Name(MapGet(map, fallbackId.n), 0)
       ELSE IF truthyId THEN Name("Component ", fallbackId.n)
       ELSE Name("Component", 0)

\* units.find(unit => unit.componentId === componentId): 0 when none matches
RECURSIVE findIndex(_, _, _)
findIndex(list, componentId, k) ==
    IF k > Len(list) THEN 0
    ELSE IF list[k].componentId = componentId THEN k
    ELSE findIndex(list, componentId, k + 1)

find(list, componentId) == findIndex(list, componentId, 1)

-----------------------------------------------------------------------------
(* Data-store rows and the values explored *)

RuleRow(cid, amt, inc, nm) ==
    [agency_id |-> "A1", procedure_id |-> 7, role |-> "National",
     component_id |-> cid, componentId |-> Undef, amount |-> amt,
     included_quantity |-> inc, includedQuantity |-> Undef,
     component_name |-> nm]

\* a row of the camelCase schema revision
CamelRuleRow(cid, amt, inc) ==
    [agency_id |-> "A1", procedure_id |-> 7, role |-> "National",
     component_id |-> Undef, componentId |-> cid, amount |-> amt,
     included_quantity |-> Undef, includedQuantity |-> inc,
     component_name |-> Null]

AgencyRow(agencyId, id, currency, code) ==
    [agency_id |-> agencyId, id |-> id, currency |-> currency,
     currency_code |-> code]

ComponentRow(cid, componentName, displayName, name) ==
    [component_id |-> cid, componentId |-> Undef, id |-> Undef,
     component_name |-> componentName, display_name |-> displayName,
     name |-> name]

RawUnit(c, q) == [componentId |-> c, quantity |-> q]

SeqsUpTo(S, k) == UNION {[1..m -> S] : m \in 0..k}

\* rule rows exercising the billing arithmetic
CalcRuleRows ==
    {RuleRow(Num(1), Num(50), inc, Null) : inc \in {Null, Num(2)}}
    \cup {RuleRow(Num(2), Num(20), inc, Null) : inc \in {Null, Num(1), Num(0 - 1)}}
    \cup {RuleRow(Num(2), Str("20"), Str("1"), Null),
          CamelRuleRow(Num(2), Num(20), Num(1)),
          RuleRow(Num(1), Num(0 - 5), Null, Null),
          RuleRow(Num(2), Null, Null, Null),
          RuleRow(Num(2), Str("abc"), Null, Null),
          RuleRow(Num(0), Num(50), Null, Null),
          RuleRow(Null, Num(50), Null, Null)}

\* rule rows exercising component-name resolution
NamedRuleRows ==
    {RuleRow(Num(1), Num(50), Null, nm) : nm \in {Null, Str("Basic"), Str(" ")}}
    \cup {RuleRow(Num(2), Num(20), Num(1), nm) : nm \in {Null, Str(" Lodging ")}}

TheAgency == AgencyRow("A1", "x1", Str("EUR"), Null)

AgencyTables ==
    {<<>>}
    \cup {<<AgencyRow("A1", "x1", cur, code)>> :
            cur \in {Null, Str(" "), Str("EUR"), Str(" EUR ")},
            code \in {Null, Str("GBP")}}
    \cup {<<AgencyRow("ZZ", "A1", cur, code)>> :
            cur \in {Null, Str("EUR")}, code \in {Null, Str("GBP")}}
    \cup {<<AgencyRow("A1", "x1", Null, Null), AgencyRow("ZZ", "A1", Str("EUR"), Null)>>}

TheComponents == <<ComponentRow(Num(2), Null, Null, Str("Filing"))>>

ComponentTables ==
    {<<>>,
     TheComponents,
     <<ComponentRow(Num(1), Str("Base Fee"), Null, Null),
       ComponentRow(Num(2), Str(" "), Str(" Filing "), Str("Search"))>>,
     <<ComponentRow(Num(2), Null, Null, Null)>>,
     <<ComponentRow(Num(2), Null, Null, Str("Filing")),
       ComponentRow(Num(2), Null, Null, Str("Search"))>>}

CoreUnits == {RawUnit(Num(2), Num(3)), RawUnit(Num(2), Num(1))}

RawUnitLists ==
    SeqsUpTo(CoreUnits, MaxUnits)
    \cup {<<RawUnit(Num(1), Num(2))>>,
          <<RawUnit(Num(0), Num(3))>>,
          <<RawUnit(Num(2), Num(0 - 1))>>,
          <<RawUnit(Str("2"), Str("3"))>>}

\* unit entries of every kind: well-formed, negative, non-numeric, missing,
\* blank and infinite component ids and quantities
MixedUnits ==
    {RawUnit(Num(2), Num(3)), RawUnit(Str("2"), Str("3")), RawUnit(Num(2), Num(0)),
     RawUnit(Num(2), Num(0 - 1)), RawUnit(Num(2), Str("abc")), RawUnit(Null, Num(1)),
     RawUnit(Num(2), Undef), RawUnit(Num(2), Str("")), RawUnit(Str(" "), Num(1)),
     RawUnit(Num(2), Inf), RawUnit(Inf, Num(1))}

Body(agencyId, procedureId, role, rawUnits) ==
    [method |-> "POST", agencyId |-> agencyId, procedureId |-> procedureId,
     role |-> role, units |-> rawUnits]

NoUnits == [array |-> TRUE, items |-> <<>>]

ValidBody(rawUnits) == Body(Str("A1"), Num(7), Str("National"), rawUnits)

\* the requests clients send in each scenario
Traffic(population) ==
    CASE population = "billing" ->
            {ValidBody([array |-> TRUE, items |-> l]) : l \in RawUnitLists}
            \cup {ValidBody([array |-> FALSE, items |-> <<>>])}
      [] population = "agencies" ->
            {Body(a, Num(7), Str("National"), NoUnits) :
                a \in {Str("A1"), Str(" A1 "), Str("B2")}}
      [] population = "names" ->
            {ValidBody(NoUnits),
             ValidBody([array |-> TRUE, items |-> <<RawUnit(Num(2), Num(3))>>])}
      [] population = "observed" ->
            {ValidBody(NoUnits),
             ValidBody([array |-> TRUE, items |-> <<RawUnit(Num(2), Num(3))>>]),
             Body(Str("B2"), Num(7), Str("National"), NoUnits),
             Body(Str(""), Num(7), Str("National"), NoUnits)}
      [] population = "sanitising" ->
            {ValidBody([array |-> TRUE, items |-> l]) :
                l \in SeqsUpTo(MixedUnits, MaxUnits)}
            \cup {ValidBody([array |-> FALSE, items |-> <<>>])}
      [] population = "validation" ->
            {ValidBody(NoUnits)}
            \cup {Body(a, Num(7), Str("National"), NoUnits) :
                    a \in {Str(""), Str(" "), Undef, Null, Num(5)}}
            \cup {Body(Str("A1"), p, Str("National"), NoUnits) :
                    p \in {Str("7"), Str("abc"), Str(""), Str(" "),
                           Str("Infinity"), Undef, Null, Inf}}
            \cup {Body(Str("A1"), Num(7), r, NoUnits) :
                    r \in {Str(" National "), Str("CMS"), Str(""), Str(" "),
                           Undef, Num(5)}}
            \cup {Body(Undef, Undef, Undef, NoUnits)}
            \cup {[ValidBody(NoUnits) EXCEPT !.method = "GET"]}
      [] population = "server" ->
            {ValidBody(NoUnits),
             [Body(Undef, Undef, Undef, NoUnits) EXCEPT !.method = "GET"]}
      [] OTHER -> {}

\* the methods of the requests to a reference-data handler
ListTraffic(population, handler) ==
    CASE population = "server" -> {"GET", "POST"}
      [] population = handler -> {"GET"}
      [] OTHER -> {}

Ask(method, message) == [method |-> method, message |-> message]

\* the requests to ask-assistant
AskTraffic(population) ==
    CASE population = "assistant" ->
            {Ask("POST", m) : m \in {Str("hi"), Str(" "), Undef, Num(5)}}
            \cup {Ask("GET", Str("hi")), Ask("PUT", Undef)}
      [] population = "server" -> {Ask("POST", Str("hi")), Ask("GET", Undef)}
      [] OTHER -> {}

-----------------------------------------------------------------------------
(* Responses *)

NoRequest == [Body(Undef, Undef, Undef, NoUnits) EXCEPT !.method = ""]

NoResponse ==
    [status |-> 0, allow |-> "", error |-> "", totalFee |-> 0,
     currency |-> "", feeBreakdown |-> <<>>]

ErrorResponse(status, message) ==
    [NoResponse EXCEPT !.status = status, !.error = message]

SuccessResponse(total, currency, breakdown) ==
    [NoResponse EXCEPT !.status = 200, !.totalFee = total,
                       !.currency = currency, !.feeBreakdown = breakdown]

\* The remembered exchange: its request, its data-store interactions, how it
\* ended, and how many requests have arrived since (counted up to MaxSince).
NoMemo(on) == [on |-> on, set |-> FALSE, req |-> NoRequest, io |-> <<>>,
               pc |-> "idle", res |-> NoResponse, since |-> 0]

-----------------------------------------------------------------------------
(* Data-store queries: what a successful query returns *)

\* the role filter is missing from the rule query
selectFeeRulesIgnoresRole(agencyId, procedureId, role) ==
    SelectSeq(Tbl_Fee_Rules,
              LAMBDA row : /\ row.agency_id = agencyId
                           /\ procedureId.t = "number"
                           /\ row.procedure_id = procedureId.n)

\* from('Tbl_Fee_Rules').select('*').eq('agency_id', a).eq('procedure_id', p).eq('role', r)
selectFeeRules(agencyId, procedureId, role) ==
    SelectSeq(Tbl_Fee_Rules,
              LAMBDA row : /\ row.agency_id = agencyId
                           /\ procedureId.t = "number"
                           /\ row.procedure_id = procedureId.n
                           /\ row.role = role)

\* from('Tbl_Agencies').select('currency,currency_code').eq(column, id)
selectAgencies(column, id) ==
    SelectSeq(Tbl_Agencies,
              LAMBDA row : IF column = "agency_id" THEN row.agency_id = id
                                                   ELSE row.id = id)

\* from('Tbl_Fee_Components').select('*').in('component_id', componentIds)
selectComponents(componentIds) ==
    SelectSeq(Tbl_Fee_Components,
              LAMBDA row : /\ row.component_id.t = "number"
                           /\ row.component_id.n \in componentIds)

\* the outcomes a query on a table can have in the current environment
Outcomes(table) == IF table \in flaky THEN {"ok", "error", "throw"} ELSE {"ok"}

AllTables == {"Tbl_Fee_Rules", "Tbl_Agencies", "Tbl_Fee_Components"}

\* maybeSingle(): more than one matching row is an error result
maybeSingle(rows, outcome) ==
    IF outcome = "ok" /\ Len(rows) > 1 THEN "error" ELSE outcome

\* currency_code is preferred to currency
currencyOfPrefersCode(record) ==
    LET currency == IF record.currency.t = "string"
                    THEN Trim(record.currency.s) ELSE ""
        code == IF record.currency_code.t = "string"
                THEN Trim(record.currency_code.s) ELSE ""
    IN IF code # "" THEN code ELSE currency

\* record.currency?.trim() || record.currency_code?.trim() || null ("" is null)
currencyOf(record) ==
    LET currency == IF record.currency.t = "string"
                    THEN Trim(record.currency.s) ELSE ""
        code == IF record.currency_code.t = "string"
                THEN Trim(record.currency_code.s) ELSE ""
    IN IF currency # "" THEN currency ELSE code

\* the forEach of fetchComponentNameMap over the rows returned
RECURSIVE fillNameMap(_, _)
fillNameMap(rows, map) ==
    IF rows = <<>>
    THEN map
    ELSE LET component == Head(rows)
             id == toNumber(Coalesce(Coalesce(component.component_id,
                                              component.componentId),
                                     component.id), NaN)
             text(v) == IF v.t = "string" THEN Trim(v.s) ELSE ""
             componentName ==
                 IF text(component.component_name) # ""
                 THEN text(component.component_name)
                 ELSE IF text(component.display_name) # ""
                      THEN text(component.display_name)
                      ELSE text(component.name)
         IN IF id.t = "nan" \/ componentName = ""
            THEN fillNameMap(Tail(rows), map)
            ELSE fillNameMap(Tail(rows), MapSet(map, id.n, componentName))

\* the distinct numeric component ids of the matched rules
componentIdsOf(rules) ==
    {getRuleComponentId(rules[k]).n :
        k \in {j \in 1..Len(rules) : getRuleComponentId(rules[j]).t = "number"}}

-----------------------------------------------------------------------------
(* One iteration of the for-of loop over the matched rules: what it adds   *)
(* to totalFee and what it pushes on feeBreakdown.                         *)

Nothing == [add |-> 0, push |-> <<>>]

\* the two guards that skip a rule before any billing
skipRuleIgnoresAmount(rule) ==
    LET componentId == getRuleComponentId(rule)
    IN componentId.t = "null" \/ componentId.n <= 0

skipRule(rule) ==
    LET componentId == getRuleComponentId(rule)
    IN \/ componentId.t = "null" \/ componentId.n <= 0
       \/ getRuleAmount(rule) <= 0

\* matchingUnit.quantity - includedQuantity
billableQuantityIgnoresIncluded(rule, quantity) == quantity

billableQuantity(rule, quantity) == quantity - getIncludedQuantity(rule)

\* the loop without the component-1 branch: every rule is billed by unit
loopBodyNoBaseCase(rule, unitList, nameMap) ==
    LET componentId == getRuleComponentId(rule)
        amountPerUnit == getRuleAmount(rule)
        componentName == getRuleComponentName(rule, nameMap, componentId)
        k == find(unitList, componentId.n)
        billable == billableQuantity(rule, unitList[k].quantity)
    IN IF skipRule(rule) \/ k = 0 THEN Nothing
       ELSE IF billable <= 0 THEN Nothing
       ELSE [add |-> billable * amountPerUnit,
             push |-> <<[componentName |-> [componentName EXCEPT !.x = billable],
                         amount |-> billable * amountPerUnit]>>]

\* a rule without a matching unit is billed for the first unit supplied
loopBodyBillsFirstUnit(rule, unitList, nameMap) ==
    LET componentId == getRuleComponentId(rule)
        amountPerUnit == getRuleAmount(rule)
        componentName == getRuleComponentName(rule, nameMap, componentId)
        found == find(unitList, componentId.n)
        k == IF found = 0 /\ unitList # <<>> THEN 1 ELSE found
        billable == billableQuantity(rule, unitList[k].quantity)
    IN IF skipRule(rule) THEN Nothing
       ELSE IF componentId.n = 1
            THEN [add |-> amountPerUnit,
                  push |-> <<[componentName |-> componentName,
                              amount |-> amountPerUnit]>>]
       ELSE IF k = 0 THEN Nothing
       ELSE IF billable <= 0 THEN Nothing
       ELSE [add |-> billable * amountPerUnit,
             push |-> <<[componentName |-> [componentName EXCEPT !.x = billable],
                         amount |-> billable * amountPerUnit]>>]

loopBody(rule, unitList, nameMap) ==
    LET componentId == getRuleComponentId(rule)
        amountPerUnit == getRuleAmount(rule)
        componentName == getRuleComponentName(rule, nameMap, componentId)
        k == find(unitList, componentId.n)
        billable == billableQuantity(rule, unitList[k].quantity)
        componentCost == billable * amountPerUnit
    IN IF skipRule(rule) THEN Nothing
       ELSE IF componentId.n = 1
            THEN [add |-> amountPerUnit,
                  push |-> <<[componentName |-> componentName,
                              amount |-> amountPerUnit]>>]
       ELSE IF k = 0 THEN Nothing
       ELSE IF billable <= 0 THEN Nothing
       ELSE [add |-> componentCost,
             push |-> <<[componentName |-> [componentName EXCEPT !.x = billable],
                         amount |-> componentCost]>>]

-----------------------------------------------------------------------------
(* The handler of POST /api/calculate-fee *)

\* typeof v !== 'string' || !v.trim()
blankOrNotString(v) == v.t # "string" \/ Trim(v.s) = ""

numericProcedureId(procedureId) ==
    IF IsNumberType(procedureId) THEN procedureId
    ELSE IF procedureId.t = "string" THEN StringToNumber(procedureId.s)
    ELSE NaN

\* the cached handle is ignored and a client is constructed on every call
createsClientOnEveryCall == TRUE

\* getSupabaseServerClient() runs createClient when no handle is cached yet
createsClient == cachedClient = "null"

\* the cached handle cannot be used a second time
getSupabaseServerClientThrowsOnReuse == cachedClient # "null" \/ ~configured

\* getSupabaseServerClient() throws when nothing is cached and the
\* environment lacks the URL or the key
getSupabaseServerClientThrows == cachedClient = "null" /\ ~configured

\* let totalFee = 0; const feeBreakdown = []; the loop starts at the first rule
LoopInit ==
    /\ totalFee' = 0
    /\ feeBreakdown' = <<>>
    /\ ruleIndex' = 1
    /\ pc' = "loop"

\* the role check is missing
validationErrorSkipsRole(r) ==
    IF blankOrNotString(r.agencyId) THEN "agencyId is required."
    ELSE IF numericProcedureId(r.procedureId).t = "nan"
         THEN "procedureId must be a number."
    ELSE ""

\* The body checks in the order the handler makes them: the message of
\* the first one that fails, "" when the body passes.
validationError(r) ==
    IF blankOrNotString(r.agencyId) THEN "agencyId is required."
    ELSE IF numericProcedureId(r.procedureId).t = "nan"
         THEN "procedureId must be a number."
    ELSE IF blankOrNotString(r.role) THEN "role is required."
    ELSE ""

\* A request arrives and the handler runs to its first await.
Receive(r) ==
    /\ pc \in {"idle", "done", "unhandled"}
    /\ req' = r
    /\ feeRules' = <<>>
    /\ agencyCurrency' = ""
    /\ componentNameMap' = {}
    /\ ruleIndex' = 0
    /\ totalFee' = 0
    /\ feeBreakdown' = <<>>
    /\ UNCHANGED dbVars
    /\ memo' = IF memo.set /\ memo.since < MaxSince
               THEN [memo EXCEPT !.since = memo.since + 1]
               ELSE memo
    /\ IF r.method # "POST"
       THEN /\ res' = [ErrorResponse(405, "Method Not Allowed. Use POST with a JSON body.")
                         EXCEPT !.allow = "POST"]
            /\ pc' = "done"
            /\ io' = <<>>
            /\ units' = <<>>
            /\ UNCHANGED <<cachedClient, created>>
       ELSE IF validationError(r) # ""
       THEN /\ res' = ErrorResponse(400, validationError(r))
            /\ pc' = "done"
            /\ io' = <<>>
            /\ units' = <<>>
            /\ UNCHANGED <<cachedClient, created>>
       ELSE /\ units' = normaliseUnits(r.units)
            /\ res' = NoResponse
            /\ IF getSupabaseServerClientThrows
               THEN /\ pc' = "unhandled"
                    /\ io' = <<[op |-> "getSupabaseServerClient", outcome |-> "throw"]>>
                    /\ UNCHANGED <<cachedClient, created>>
               ELSE /\ pc' = "awaitRules"
                    /\ io' = <<[op |-> "getSupabaseServerClient", outcome |-> "ok"]>>
                    /\ cachedClient' = "client"
                    /\ created' = IF createsClient THEN created + 1 ELSE created

\* The fee-rule query settles.
RulesReply(outcome) ==
    /\ pc = "awaitRules"
    /\ io' = Append(io, [op |-> "Tbl_Fee_Rules", outcome |-> outcome])
    /\ UNCHANGED <<dbVars, cachedClient, created, memo, req, units, agencyCurrency,
                   componentNameMap, ruleIndex, totalFee, feeBreakdown>>
    /\ IF outcome = "error"
       THEN /\ res' = ErrorResponse(500, "Unable to fetch fee rules at this time.")
            /\ pc' = "done"
            /\ UNCHANGED feeRules
       ELSE IF outcome = "throw"
       THEN /\ res' = ErrorResponse(500, "fetch failed")
            /\ pc' = "done"
            /\ UNCHANGED feeRules
       ELSE /\ feeRules' = selectFeeRules(Trim(req.agencyId.s),
                                          numericProcedureId(req.procedureId),
                                          Trim(req.role.s))
            /\ pc' = "awaitAgency"
            /\ UNCHANGED res

\* The handler's continuation once fetchAgencyCurrency has returned
\* currency ("" for null).
AfterCurrency(currency) ==
    LET resolved == IF currency = "" THEN "USD" ELSE currency
    IN /\ agencyCurrency' = resolved
       /\ IF feeRules = <<>>
          THEN /\ res' = SuccessResponse(0, resolved, <<>>)
               /\ pc' = "done"
               /\ UNCHANGED <<componentNameMap, ruleIndex, totalFee, feeBreakdown>>
          ELSE IF componentIdsOf(feeRules) = {}
          THEN /\ componentNameMap' = {}
               /\ LoopInit
               /\ UNCHANGED res
          ELSE /\ pc' = "awaitComponents"
               /\ UNCHANGED <<res, componentNameMap, ruleIndex, totalFee, feeBreakdown>>

\* fetchAgencyCurrency: the lookup by agency_id settles.
AgencyReply(outcome) ==
    LET rows == selectAgencies("agency_id", Trim(req.agencyId.s))
        result == maybeSingle(rows, outcome)
    IN /\ pc = "awaitAgency"
       /\ io' = Append(io, [op |-> "Tbl_Agencies.agency_id", outcome |-> result])
       /\ UNCHANGED <<dbVars, cachedClient, created, memo, req, units, feeRules>>
       /\ IF result # "ok"
          THEN AfterCurrency("")
          ELSE IF Len(rows) = 1
          THEN AfterCurrency(currencyOf(rows[1]))
          ELSE /\ pc' = "awaitAgencyFallback"
               /\ UNCHANGED <<res, agencyCurrency, componentNameMap, ruleIndex,
                              totalFee, feeBreakdown>>

\* fetchAgencyCurrency: the fallback lookup by id settles.
AgencyFallbackReply(outcome) ==
    LET rows == selectAgencies("id", Trim(req.agencyId.s))
        result == maybeSingle(rows, outcome)
    IN /\ pc = "awaitAgencyFallback"
       /\ io' = Append(io, [op |-> "Tbl_Agencies.id", outcome |-> result])
       /\ UNCHANGED <<dbVars, cachedClient, created, memo, req, units, feeRules>>
       /\ IF result = "ok" /\ Len(rows) = 1
          THEN AfterCurrency(currencyOf(rows[1]))
          ELSE AfterCurrency("")

\* a failed component query is not caught and ends the request with 500
ComponentsReplyPropagates(outcome) ==
    /\ pc = "awaitComponents"
    /\ io' = Append(io, [op |-> "Tbl_Fee_Components", outcome |-> outcome])
    /\ UNCHANGED <<dbVars, cachedClient, created, memo, req, units, feeRules,
                   agencyCurrency>>
    /\ IF outcome = "ok"
       THEN /\ componentNameMap' =
                  fillNameMap(selectComponents(componentIdsOf(feeRules)), {})
            /\ LoopInit
            /\ UNCHANGED res
       ELSE /\ res' = ErrorResponse(500, "fetch failed")
            /\ pc' = "done"
            /\ UNCHANGED <<componentNameMap, ruleIndex, totalFee, feeBreakdown>>

\* fetchComponentNameMap: the component query settles.
ComponentsReply(outcome) ==
    /\ pc = "awaitComponents"
    /\ io' = Append(io, [op |-> "Tbl_Fee_Components", outcome |-> outcome])
    /\ componentNameMap' =
          IF outcome = "ok"
          THEN fillNameMap(selectComponents(componentIdsOf(feeRules)), {})
          ELSE {}
    /\ LoopInit
    /\ UNCHANGED <<dbVars, cachedClient, created, memo, req, units, feeRules,
                   agencyCurrency, res>>

\* totalFee is assigned where it should be accumulated
LoopStepAssignsTotal ==
    /\ pc = "loop"
    /\ ruleIndex <= Len(feeRules)
    /\ LET step == loopBody(feeRules[ruleIndex], units, componentNameMap)
       IN /\ totalFee' = step.add
          /\ feeBreakdown' = feeBreakdown \o step.push
    /\ ruleIndex' = ruleIndex + 1
    /\ UNCHANGED <<dbVars, cachedClient, created, memo, req, pc, units, feeRules,
                   agencyCurrency, componentNameMap, res, io>>

\* One iteration of for (const rule of feeRules).
LoopStep ==
    /\ pc = "loop"
    /\ ruleIndex <= Len(feeRules)
    /\ LET step == loopBody(feeRules[ruleIndex], units, componentNameMap)
       IN /\ totalFee' = totalFee + step.add
          /\ feeBreakdown' = feeBreakdown \o step.push
    /\ ruleIndex' = ruleIndex + 1
    /\ UNCHANGED <<dbVars, cachedClient, created, memo, req, pc, units, feeRules,
                   agencyCurrency, componentNameMap, res, io>>

\* res.status(200).json({totalFee, currency, feeBreakdown})
Respond ==
    /\ pc = "loop"
    /\ ruleIndex > Len(feeRules)
    /\ res' = SuccessResponse(totalFee, agencyCurrency, feeBreakdown)
    /\ pc' = "done"
    /\ UNCHANGED <<dbVars, cachedClient, created, memo, req, locals, io>>

\* Observer: remember one completed exchange, to compare later ones with.
Remember ==
    /\ pc \in {"done", "unhandled"}
    /\ memo.on
    /\ ~memo.set
    /\ memo' = [on |-> TRUE, set |-> TRUE, req |-> req, io |-> io,
                pc |-> pc, res |-> res, since |-> 0]
    /\ UNCHANGED <<dbVars, cachedClient, created, req, pc, locals, res, io>>

-----------------------------------------------------------------------------
(* The reference-data handlers: GET /api/agencies and GET /api/procedures  *)

\* a row of tbl_agencies; an absent column is Undef
ReferenceAgency(agencyId, agencyid, id, name) ==
    [agency_id |-> agencyId, agencyid |-> agencyid, id |-> id, name |-> name]

\* a row of Tbl_Procedure_Types
ProcedureRow(procedureId, id, name, displayName) ==
    [procedure_id |-> procedureId, id |-> id, name |-> name,
     display_name |-> displayName]

\* Boolean(value) of a string or nullish value
Truthy(v) == v.t = "string" /\ v.s # ""

\* value?.trim()
optionalTrim(v) == IF IsNullish(v) THEN Undef ELSE Str(Trim(v.s))

\* agency.agency_id ?? agency.agencyid ?? agency.id ?? ''
stableId(agency) ==
    Coalesce(Coalesce(Coalesce(agency.agency_id, agency.agencyid), agency.id),
             Str(""))

\* [...].filter(Boolean)[0] ?? fallback
RECURSIVE firstTruthy(_, _)
firstTruthy(values, fallback) ==
    IF values = <<>> THEN fallback
    ELSE IF Truthy(Head(values)) THEN Head(values).s
    ELSE firstTruthy(Tail(values), fallback)

\* the {id, name} entry of one agency row
agencyEntry(agency) ==
    [id |-> stableId(agency).s,
     name |-> firstTruthy(<<optionalTrim(agency.name), agency.agency_id,
                            agency.agencyid, stableId(agency)>>,
                          "Untitled Agency")]

\* A procedure name is [text, id]: the text and the value interpolated
\* after it (Str("") when there is none).
Plain(text) == [text |-> text, id |-> Str("")]

\* display_name?.trim() || name?.trim() || `Procedure ${shown ?? ''}`
procedureName(procedure, shown) ==
    IF Truthy(optionalTrim(procedure.display_name))
    THEN Plain(optionalTrim(procedure.display_name).s)
    ELSE IF Truthy(optionalTrim(procedure.name))
         THEN Plain(optionalTrim(procedure.name).s)
    ELSE [text |-> "Procedure ", id |-> Coalesce(shown, Str(""))]

\* the {id, name} entry of one procedure row, current revision
procedureEntry(procedure) ==
    [id |-> Coalesce(Coalesce(procedure.procedure_id, procedure.id), Num(0)),
     name |-> procedureName(procedure, procedure.id)]

\* the {id, name} entry of one procedure row, draft revision
procedureEntryDraft(procedure) ==
    [id |-> Coalesce(procedure.procedure_id, Num(0)),
     name |-> procedureName(procedure, procedure.procedure_id)]

\* (data ?? []).map(agency => ...) of the agencies handler
mapAgencies(rows) == [k \in 1..Len(rows) |-> agencyEntry(rows[k])]

\* (data ?? []).map(procedure => ...) of the procedures handler, by revision
mapProcedures(revision, rows) ==
    [k \in 1..Len(rows) |->
        IF revision = "draft" THEN procedureEntryDraft(rows[k])
        ELSE procedureEntry(rows[k])]

\* select('id,procedure_id,name,display_name') or, in the draft,
\* select('procedure_id,name,display_name'): the columns a row comes back with
selectProcedureTypes(revision) ==
    IF revision = "draft"
    THEN [k \in 1..Len(Tbl_Procedure_Types) |->
             [Tbl_Procedure_Types[k] EXCEPT !.id = Undef]]
    ELSE Tbl_Procedure_Types

NoListResponse == [status |-> 0, allow |-> "", error |-> "", list |-> <<>>]

ListError(status, message) ==
    [NoListResponse EXCEPT !.status = status, !.error = message]

ListSuccess(list) == [NoListResponse EXCEPT !.status = 200, !.list = list]

\* an invocation of a reference-data handler: the request's method, the
\* position, the client handle obtained (0 for none), the data-store
\* interactions and the response
NoCall == [method |-> "", pc |-> "idle", supabase |-> 0, io |-> <<>>,
           res |-> NoListResponse]

\* the method check is missing
enterListSkipsMethodCheck(method) ==
    IF getSupabaseServerClientThrows
    THEN [NoCall EXCEPT !.method = method, !.pc = "done",
                        !.io = <<[op |-> "getSupabaseServerClient",
                                  outcome |-> "throw"]>>,
                        !.res = ListError(500, "Unexpected error occurred.")]
    ELSE [NoCall EXCEPT !.method = method, !.pc = "await",
                        !.supabase = IF createsClient THEN created + 1 ELSE created,
                        !.io = <<[op |-> "getSupabaseServerClient",
                                  outcome |-> "ok"]>>]

\* A reference-data handler up to its await: the method check, then, inside
\* the try, the client and the query.  The invocation it leaves behind.
enterList(method) ==
    IF method # "GET"
    THEN [NoCall EXCEPT !.method = method, !.pc = "done",
                        !.res = [ListError(405, "Method Not Allowed")
                                    EXCEPT !.allow = "GET"]]
    ELSE IF getSupabaseServerClientThrows
    THEN [NoCall EXCEPT !.method = method, !.pc = "done",
                        !.io = <<[op |-> "getSupabaseServerClient",
                                  outcome |-> "throw"]>>,
                        !.res = ListError(500, "Unexpected error occurred.")]
    ELSE [NoCall EXCEPT !.method = method, !.pc = "await",
                        !.supabase = IF createsClient THEN created + 1 ELSE created,
                        !.io = <<[op |-> "getSupabaseServerClient",
                                  outcome |-> "ok"]>>]

\* what getSupabaseServerClient() does to the module state when a
\* reference-data handler has been entered
clientAfter(call) ==
    IF call.pc = "await"
    THEN /\ cachedClient' = "client"
         /\ created' = call.supabase
    ELSE UNCHANGED <<cachedClient, created>>

\* the query of a reference-data handler settles
leaveList(call, table, outcome, list, message) ==
    [call EXCEPT !.pc = "done",
                 !.io = Append(call.io, [op |-> table, outcome |-> outcome]),
                 !.res = IF outcome = "error" THEN ListError(500, message)
                         ELSE IF outcome = "throw"
                              THEN ListError(500, "Unexpected error occurred.")
                         ELSE ListSuccess(list)]

\* GET /api/agencies arrives and the handler runs to its await.
AgenciesReceive(method) ==
    /\ agenciesCall.pc \in {"idle", "done"}
    /\ agenciesCall' = enterList(method)
    /\ clientAfter(agenciesCall')
    /\ UNCHANGED <<storeVars, envVars, uiVars, feeCall, proceduresCall, assistantCall>>

\* The query on tbl_agencies settles.
AgenciesReply(outcome) ==
    /\ agenciesCall.pc = "await"
    /\ agenciesCall' = leaveList(agenciesCall, "tbl_agencies", outcome,
                                 mapAgencies(tbl_agencies),
                                 "Unable to load agencies.")
    /\ UNCHANGED <<storeVars, envVars, uiVars, feeCall, proceduresCall, assistantCall,
                   cachedClient, created>>

\* GET /api/procedures arrives and the handler runs to its await.
ProceduresReceive(method) ==
    /\ proceduresCall.pc \in {"idle", "done"}
    /\ proceduresCall' = enterList(method)
    /\ clientAfter(proceduresCall')
    /\ UNCHANGED <<storeVars, envVars, uiVars, feeCall, agenciesCall, assistantCall>>

\* The query on Tbl_Procedure_Types settles.
ProceduresReply(outcome) ==
    /\ proceduresCall.pc = "await"
    /\ proceduresCall' =
          leaveList(proceduresCall, "Tbl_Procedure_Types", outcome,
                    mapProcedures(variant, selectProcedureTypes(variant)),
                    "Unable to load procedures.")
    /\ UNCHANGED <<storeVars, envVars, uiVars, feeCall, agenciesCall, assistantCall,
                   cachedClient, created>>

-----------------------------------------------------------------------------
(* The assistant proxy: POST /api/ask-assistant                            *)

\* a structured reply of the language model, as JSON text
IntentText == "{\"agencyId\":\"A1\",\"procedureId\":7,\"role\":\"National\"}"

\* the value of a JSON object, known by its text
Object(text) == [t |-> "object", n |-> 0, s |-> text]

\* JSON.parse on the string universe: ok is FALSE when it throws
JSONparse(text) ==
    CASE text = "42"          -> [ok |-> TRUE, value |-> Num(42)]
      [] text = "\"hello\"" -> [ok |-> TRUE, value |-> Str("hello")]
      [] text = "null"        -> [ok |-> TRUE, value |-> Null]
      [] text = IntentText    -> [ok |-> TRUE, value |-> Object(IntentText)]
      [] OTHER                -> [ok |-> FALSE, value |-> Undef]

NoAnswer == [status |-> 0, allow |-> "", error |-> "", body |-> Undef]

AnswerError(status, message) ==
    [NoAnswer EXCEPT !.status = status, !.error = message]

\* an invocation of ask-assistant: the request, the position, the content
\* the language-model API replied with, the calls made and the response
NoAsk == [method |-> "", message |-> Undef, pc |-> "idle", content |-> Undef,
          io |-> <<>>, res |-> NoAnswer]

\* a parse failure is reported as an error
answerOfStrictParse(llmResponse) ==
    IF JSONparse(llmResponse).ok
    THEN [NoAnswer EXCEPT !.status = 200, !.body = JSONparse(llmResponse).value]
    ELSE AnswerError(500, "Failed to process request.")

\* let parsedResponse; try { JSON.parse } catch { raw }; res.status(200).json(...)
answerOf(llmResponse) ==
    [NoAnswer EXCEPT !.status = 200,
                     !.body = IF JSONparse(llmResponse).ok
                              THEN JSONparse(llmResponse).value
                              ELSE Str(llmResponse)]

\* POST /api/ask-assistant arrives and the handler runs to its first await.
AssistantReceive(r) ==
    LET message == IF r.message.t = "string" THEN Trim(r.message.s) ELSE ""
        call == [NoAsk EXCEPT !.method = r.method, !.message = r.message]
    IN /\ assistantCall.pc \in {"idle", "done"}
       /\ assistantCall' =
             IF r.method # "POST"
             THEN [call EXCEPT !.pc = "done",
                               !.res = [AnswerError(405, "Method Not Allowed. Use POST with a JSON body.")
                                           EXCEPT !.allow = "POST"]]
             ELSE IF message = ""
             THEN [call EXCEPT !.pc = "done",
                               !.res = AnswerError(400, "message is required.")]
             ELSE [call EXCEPT !.pc = "awaitPrompt"]
       /\ UNCHANGED <<storeVars, envVars, uiVars, feeCall, agenciesCall, proceduresCall,
                      cachedClient, created>>

\* loadSystemPrompt settles; on success callLlmAPI runs to its fetch.
PromptReply(outcome) ==
    /\ assistantCall.pc = "awaitPrompt"
    /\ assistantCall' =
          LET call == [assistantCall EXCEPT
                          !.io = Append(@, [op |-> "AGENTS.MD", outcome |-> outcome])]
          IN IF outcome # "ok"
             THEN [call EXCEPT !.pc = "done",
                               !.res = AnswerError(500, "System prompt file is missing.")]
             ELSE IF ~apiKey
             THEN [call EXCEPT !.pc = "done",
                               !.res = AnswerError(500, "Missing OPENAI_API_KEY environment variable.")]
             ELSE [call EXCEPT !.pc = "awaitLlm"]
    /\ UNCHANGED <<storeVars, envVars, uiVars, feeCall, agenciesCall, proceduresCall,
                   cachedClient, created>>

\* The language-model API settles: the fetch throws, the status is not ok,
\* or the completion carries `content` (a string, null or nothing).
LlmReply(outcome, content) ==
    /\ assistantCall.pc = "awaitLlm"
    /\ assistantCall' =
          LET call == [assistantCall EXCEPT
                          !.pc = "done",
                          !.io = Append(@, [op |-> "llm", outcome |-> outcome])]
              trimmed == optionalTrim(content)
          IN IF outcome = "throw"
             THEN [call EXCEPT !.res = AnswerError(500, "fetch failed")]
             ELSE IF outcome = "error"
             THEN [call EXCEPT !.res = AnswerError(500, "LLM API error")]
             ELSE IF ~Truthy(trimmed)
             THEN [call EXCEPT !.content = content,
                               !.res = AnswerError(500, "LLM returned an empty response.")]
             ELSE [call EXCEPT !.content = content, !.res = answerOf(trimmed.s)]
    /\ UNCHANGED <<storeVars, envVars, uiVars, feeCall, agenciesCall, proceduresCall,
                   cachedClient, created>>

-----------------------------------------------------------------------------
(* The page: ExpertFormPage of src/pages/index.tsx                         *)

ROLE_OPTIONS == <<"National", "CMS", "RMS">>

BASE_UNIT_INPUTS == <<2, 4>>

createDefaultUnits ==
    [k \in 1..Len(BASE_UNIT_INPUTS) |->
        [componentId |-> BASE_UNIT_INPUTS[k], quantity |-> 0]]

\* value.toLowerCase().trim() on the string universe
lowerTrim(x) ==
    CASE x \in {"National", "national", " National "} -> "national"
      [] x \in {"CMS", "cms"}                          -> "cms"
      [] x \in {"RMS", "rms"}                          -> "rms"
      [] x = "Expert"                                   -> "expert"
      [] OTHER                                          -> Trim(x)

\* normaliseRole taking every string for a role
normaliseRoleOfAnyString(value) ==
    IF value.t # "string" THEN "" ELSE ROLE_OPTIONS[1]

\* normaliseRole(value): the matching role option, "" for null
normaliseRole(value) ==
    IF value.t # "string" THEN ""
    ELSE LET matching == {k \in 1..Len(ROLE_OPTIONS) :
                             lowerTrim(ROLE_OPTIONS[k]) = lowerTrim(value.s)}
         IN IF matching = {} THEN ""
            ELSE ROLE_OPTIONS[CHOOSE k \in matching : \A j \in matching : k <= j]

\* Number(value)
NumberOf(v) ==
    CASE IsNumberType(v)  -> v
      [] v.t = "string"   -> StringToNumber(v.s)
      [] v.t = "null"     -> Num(0)
      [] OTHER            -> NaN

\* A reply of ask-assistant as the page receives it: a JSON value of some
\* kind; an object has the fields below (Undef when absent), a string its
\* text.
NoFields ==
    [agencyId |-> Undef, agency_id |-> Undef, procedureId |-> Undef,
     procedure_id |-> Undef, role |-> Undef, Role |-> Undef,
     units |-> [array |-> FALSE, items |-> <<>>]]

Text(text) == [kind |-> "string", text |-> text, fields |-> NoFields]

Reply(fields) == [kind |-> "object", text |-> "", fields |-> fields]

\* data.units.map(...).filter(Boolean) of parseAssistantJsonResponse
RECURSIVE intentUnits(_)
intentUnits(items) ==
    IF items = <<>> THEN <<>>
    ELSE LET componentId == NumberOf(Head(items).componentId)
             quantity == NumberOf(Head(items).quantity)
         IN IF componentId.t = "nan" \/ quantity.t = "nan"
            THEN intentUnits(Tail(items))
            ELSE <<[componentId |-> componentId.n, quantity |-> quantity.n]>>
                 \o intentUnits(Tail(items))

\* parseAssistantJsonResponse(value): ok is FALSE for null
parseAssistantJsonResponse(value) ==
    LET data == value.fields
        agencyCandidate ==
            IF Truthy(data.agencyId) THEN data.agencyId.s
            ELSE IF Truthy(data.agency_id) THEN data.agency_id.s
            ELSE ""
        agencyId == Trim(agencyCandidate)
        rawProcedure == Coalesce(data.procedureId, data.procedure_id)
        procedureId ==
            IF IsNumberType(rawProcedure) THEN rawProcedure
            ELSE IF rawProcedure.t = "string" /\ Trim(rawProcedure.s) # ""
                 THEN StringToNumber(rawProcedure.s)
            ELSE NaN
        role == normaliseRole(Coalesce(data.role, data.Role))
    IN IF value.kind # "object" \/ agencyId = "" \/ procedureId.t = "nan" \/ role = ""
       THEN [ok |-> FALSE, agencyId |-> "", procedureId |-> NaN, role |-> "",
             hasUnits |-> FALSE, units |-> <<>>]
       ELSE [ok |-> TRUE, agencyId |-> agencyId, procedureId |-> procedureId,
             role |-> role, hasUnits |-> data.units.array,
             units |-> IF data.units.array THEN intentUnits(data.units.items)
                       ELSE <<>>]

\* the payloadMap of sanitiseUnitsForState: the last positive quantity
\* given for the component, 0 when there is none
RECURSIVE payloadMapGet(_, _, _)
payloadMapGet(payloadUnits, componentId, found) ==
    IF payloadUnits = <<>> THEN found
    ELSE LET unit == Head(payloadUnits)
         IN payloadMapGet(Tail(payloadUnits), componentId,
                          IF unit.componentId = componentId /\ unit.quantity > 0
                          THEN unit.quantity ELSE found)

sanitiseUnitsForState(payloadUnits) ==
    [k \in 1..Len(BASE_UNIT_INPUTS) |->
        [componentId |-> BASE_UNIT_INPUTS[k],
         quantity |-> payloadMapGet(payloadUnits, BASE_UNIT_INPUTS[k], 0)]]

\* The synchronous part of calculateFee(override): ok is FALSE when it
\* throws, request is the body it posts to /api/calculate-fee.
feeRequest(agencyIdRaw, procedureValue, role, unitsSource) ==
    LET agencyId == Trim(agencyIdRaw)
        procedureId == IF IsNumberType(procedureValue) THEN procedureValue ELSE NaN
        payloadUnits == SelectSeq(unitsSource, LAMBDA unit : unit.quantity > 0)
    IN [ok |-> ~(agencyId = "" \/ procedureId.t = "nan" \/ role = ""),
        request |-> [agencyId |-> agencyId, procedureId |-> procedureId,
                     role |-> role, units |-> payloadUnits]]

NoFeeRequest == [agencyId |-> "", procedureId |-> NaN, role |-> "", units |-> <<>>]

\* feeResult: null, or the response computed for a request
NoResult == [set |-> FALSE, for |-> NoFeeRequest]

ResultFor(request) == [set |-> TRUE, for |-> request]

createChatMessage(sender, content) == [sender |-> sender, content |-> content]

\* a pending async handler of the page
Idle == [pc |-> "idle", request |-> NoFeeRequest]

\* the values of the form and the last result
Form == <<selectedAgency, selectedProcedure, selectedRole, unitsState, feeResult>>

NoForm == <<"", Str(""), "", <<>>, NoResult>>

\* history: what the page did last; for the handling of a reply of the
\* assistant the reply, and for the handling of a failure the form, the
\* banner and the length of the transcript before it
Event(name) ==
    [event |-> name, form |-> NoForm, banner |-> Null, chatLen |-> 0,
     payload |-> Text("")]

Handled(name, payload) == [Event(name) EXCEPT !.payload = payload]

Failure(name) ==
    [event |-> name, form |-> Form, banner |-> errorMessage,
     chatLen |-> Len(chatMessages), payload |-> Text("")]

\* everything on the server
serverVars == <<storeVars, envVars, otherCalls, feeCall, cachedClient, created>>

\* Bounds of the explored transcripts: of the sessions that fill the form,
\* and of the session that only chats
MaxFormTranscript == 2

MaxTranscript == 4

\* The sessions explored: one fills the form by hand and by intent, one is
\* shown every kind of reply, one chats for several exchanges.
Sessions == {"index.tsx", "replies", "chat"}

TranscriptBound(session) ==
    IF session = "chat" THEN MaxTranscript ELSE MaxFormTranscript

\* what the user can pick and type
AgencyOptions(session) ==
    CASE session = "index.tsx" -> {"", "A1"}
      [] session = "replies"   -> {"A1"}
      [] OTHER                 -> {}

ProcedureOptions(session) ==
    CASE session = "index.tsx" -> {Str(""), Num(7), Num(8)}
      [] session = "replies"   -> {Num(8)}
      [] OTHER                 -> {}

RoleChoices(session) ==
    IF session = "index.tsx" THEN {"National", "CMS"} ELSE {}

QuantityChoices == {0, 3}

\* the unit inputs the user edits
EditedComponents(session) == IF session = "chat" THEN {} ELSE {2}

ChatTexts == {"hi"}

\* what a fetch of the page can end in: a 2xx response, another response
\* with an {error} body, or a rejection
FetchOutcomes == {"ok", "error", "throw"}

\* the message of the Error the page throws or catches for a failed fetch
failureText(outcome) ==
    IF outcome = "error" THEN "Unable to fetch fee rules at this time."
    ELSE "Failed to fetch"

\* a reply with the three required fields
Intent(agencyId, procedureId, role) ==
    Reply([NoFields EXCEPT !.agencyId = agencyId, !.procedureId = procedureId,
                           !.role = role])

\* the reply null
JsonNull == [kind |-> "null", text |-> "", fields |-> NoFields]

\* the replies of ask-assistant the page is shown
AssistantReplies(session) ==
  LET every ==
    {Text("Which role applies?"),
     JsonNull,
     Reply(NoFields),
     Intent(Str("A1"), Num(7), Str("National")),
     Reply([NoFields EXCEPT !.agency_id = Str(" A1 "), !.procedure_id = Str("7"),
                            !.Role = Str("cms"),
                            !.units = [array |-> TRUE,
                                       items |-> <<RawUnit(Num(2), Num(3))>>]]),
     Intent(Str("A1"), Str("Infinity"), Str(" National ")),
     Intent(Str("A1"), Num(7), Str("Expert")),
     Intent(Str("A1"), Str("abc"), Str("National")),
     Intent(Str("A1"), Str(" "), Str("National")),
     Intent(Str(" "), Num(7), Str("National")),
     Intent(Num(7), Num(7), Str("National")),
     Intent(Str("A1"), Num(7), Undef)}
  IN CASE session = "replies" -> every
       [] session = "chat" ->
            {Text("Which role applies?"), Reply(NoFields),
             Intent(Str("A1"), Num(7), Str("National"))}
       [] OTHER ->
            {r \in every :
                r.kind = "string" \/ parseAssistantJsonResponse(r).procedureId = Num(7)}

\* the agency dropdown's onChange
SelectAgency(value) ==
    /\ selectedAgency' = value
    /\ feeResult' = NoResult
    /\ last' = Event("input")
    /\ UNCHANGED <<selectedProcedure, selectedRole, unitsState, isLoading,
                   errorMessage, chatMessages, chatInput, isChatLoading,
                   initialLoad, calculation, chat, serverVars>>

\* the procedure dropdown's onChange without resetUnits()
SelectProcedureKeepsUnits(nextValue) ==
    /\ selectedProcedure' = nextValue
    /\ feeResult' = NoResult
    /\ last' = Event("input")
    /\ UNCHANGED <<selectedAgency, selectedRole, unitsState, isLoading,
                   errorMessage, chatMessages, chatInput, isChatLoading,
                   initialLoad, calculation, chat, serverVars>>

\* the procedure dropdown's onChange
SelectProcedure(nextValue) ==
    /\ selectedProcedure' = nextValue
    /\ unitsState' = createDefaultUnits
    /\ feeResult' = NoResult
    /\ last' = Event("input")
    /\ UNCHANGED <<selectedAgency, selectedRole, isLoading, errorMessage,
                   chatMessages, chatInput, isChatLoading, initialLoad,
                   calculation, chat, serverVars>>

\* the role dropdown's onChange
SelectRole(value) ==
    /\ selectedRole' = value
    /\ feeResult' = NoResult
    /\ last' = Event("input")
    /\ UNCHANGED <<selectedAgency, selectedProcedure, unitsState, isLoading,
                   errorMessage, chatMessages, chatInput, isChatLoading,
                   initialLoad, calculation, chat, serverVars>>

\* !value of a number | '' state
Falsy(v) == v = Str("") \/ v = Num(0) \/ v.t = "nan"

\* handleUnitChange(componentId, quantity); the inputs are shown once a
\* procedure is selected
handleUnitChange(componentId, quantity) ==
    /\ ~Falsy(selectedProcedure)
    /\ unitsState' = [k \in 1..Len(unitsState) |->
                         IF unitsState[k].componentId = componentId
                         THEN [unitsState[k] EXCEPT !.quantity = quantity]
                         ELSE unitsState[k]]
    /\ last' = Event("input")
    /\ UNCHANGED <<selectedAgency, selectedProcedure, selectedRole, feeResult,
                   isLoading, errorMessage, chatMessages, chatInput,
                   isChatLoading, initialLoad, calculation, chat, serverVars>>

\* the chat textarea's onChange; it is disabled while a message is sent
TypeChat(value) ==
    /\ ~isChatLoading
    /\ chatInput' = value
    /\ last' = Event("input")
    /\ UNCHANGED <<formVars, isLoading, errorMessage, chatMessages,
                   isChatLoading, initialLoad, calculation, chat, serverVars>>

\* loadInitialData settles
LoadSettles(outcome) ==
    /\ initialLoad = "await"
    /\ initialLoad' = "done"
    /\ IF outcome = "ok"
       THEN /\ UNCHANGED errorMessage
            /\ last' = Event("load.ok")
       ELSE /\ errorMessage' = Str("Failed to load reference data.")
            /\ last' = Event("load.failed")
    /\ UNCHANGED <<formVars, isLoading, chatMessages, chatInput, isChatLoading,
                   calculation, chat, serverVars>>

\* handleCalculate without its setErrorMessage
calculateFailedSilently(message) ==
    /\ feeResult' = NoResult
    /\ UNCHANGED errorMessage

\* handleCalculate without its setFeeResult(null)
calculateFailedKeepsResult(message) ==
    /\ UNCHANGED feeResult
    /\ errorMessage' = Str(message)

\* the catch of handleCalculate
calculateFailed(message) ==
    /\ feeResult' = NoResult
    /\ errorMessage' = Str(message)

\* handleCalculate up to the fetch of calculateFee; the button is disabled
\* while isLoading
ClickCalculate ==
    /\ ~isLoading
    /\ LET call == feeRequest(selectedAgency, selectedProcedure, selectedRole,
                              unitsState)
       IN IF selectedAgency = "" \/ Falsy(selectedProcedure) \/ selectedRole = ""
          THEN /\ errorMessage' =
                      Str("Please complete all selections before calculating.")
               /\ last' = Event("calculate.incomplete")
               /\ UNCHANGED <<feeResult, isLoading, calculation>>
          ELSE IF ~call.ok
          THEN /\ calculateFailed("Agency, procedure, and role are all required.")
               /\ last' = Failure("calculate.failed")
               /\ UNCHANGED <<isLoading, calculation>>
          ELSE /\ errorMessage' = Null
               /\ isLoading' = TRUE
               /\ calculation' = [pc |-> "await", request |-> call.request]
               /\ last' = Event("calculate")
               /\ UNCHANGED feeResult
    /\ UNCHANGED <<selectedAgency, selectedProcedure, selectedRole, unitsState,
                   chatMessages, chatInput, isChatLoading, initialLoad, chat,
                   serverVars>>

\* the fetch of handleCalculate's calculateFee settles
CalculateSettles(outcome) ==
    /\ calculation.pc = "await"
    /\ IF outcome = "ok"
       THEN /\ feeResult' = ResultFor(calculation.request)
            /\ last' = Event("calculate.ok")
            /\ UNCHANGED errorMessage
       ELSE /\ calculateFailed(failureText(outcome))
            /\ last' = Failure("calculate.failed")
    /\ isLoading' = FALSE
    /\ calculation' = Idle
    /\ UNCHANGED <<selectedAgency, selectedProcedure, selectedRole, unitsState,
                   chatMessages, chatInput, isChatLoading, initialLoad, chat,
                   serverVars>>

\* handleChatSend up to the fetch of ask-assistant
ChatSend ==
    /\ Trim(chatInput) # ""
    /\ ~isChatLoading
    /\ Len(chatMessages) + 2 <= TranscriptBound(scenario)
    /\ chatMessages' = Append(chatMessages,
                              createChatMessage("user", Trim(chatInput)))
    /\ chatInput' = ""
    /\ isChatLoading' = TRUE
    /\ chat' = [pc |-> "await", request |-> NoFeeRequest]
    /\ last' = Event("send")
    /\ UNCHANGED <<formVars, isLoading, errorMessage, initialLoad, calculation,
                   serverVars>>

\* JSON.stringify(payload, null, 2) of the replies shown
JSONstringify(value) ==
    CASE value.kind = "null"     -> "null"
      [] value = Reply(NoFields) -> "{}"
      [] OTHER                   -> "{...}"

\* the outer catch of handleChatSend
assistantFailed(message) ==
    /\ chatMessages' = Append(chatMessages,
           createChatMessage("assistant",
                             "Sorry, something went wrong: " \o message))
    /\ UNCHANGED errorMessage

\* the fetch of ask-assistant settles: the failure, the intent applied and
\* its calculation started, or the reply appended
AssistantSettles(outcome, payload) ==
    /\ chat.pc = "await"
    /\ LET parsedIntent == parseAssistantJsonResponse(payload)
           sanitisedUnits == sanitiseUnitsForState(parsedIntent.units)
       IN IF outcome # "ok"
          THEN /\ assistantFailed(IF outcome = "error"
                                  THEN "LLM API key is not configured."
                                  ELSE "Failed to fetch")
               /\ isChatLoading' = FALSE
               /\ chat' = Idle
               /\ last' = Failure("assistant.failed")
               /\ UNCHANGED <<selectedAgency, selectedProcedure, selectedRole,
                              unitsState>>
          ELSE IF parsedIntent.ok
          THEN /\ selectedAgency' = parsedIntent.agencyId
               /\ selectedProcedure' = parsedIntent.procedureId
               /\ selectedRole' = parsedIntent.role
               /\ unitsState' = sanitisedUnits
               /\ errorMessage' = Null
               /\ chat' = [pc |-> "awaitFee",
                           request |-> feeRequest(parsedIntent.agencyId,
                                                  parsedIntent.procedureId,
                                                  parsedIntent.role,
                                                  sanitisedUnits).request]
               /\ last' = Handled("intent", payload)
               /\ UNCHANGED <<chatMessages, isChatLoading>>
          ELSE /\ chatMessages' = Append(chatMessages,
                      createChatMessage("assistant",
                          IF payload.kind = "string" THEN payload.text
                          ELSE JSONstringify(payload)))
               /\ isChatLoading' = FALSE
               /\ chat' = Idle
               /\ last' = Handled("reply", payload)
               /\ UNCHANGED <<selectedAgency, selectedProcedure, selectedRole,
                              unitsState, errorMessage>>
    /\ UNCHANGED <<feeResult, isLoading, chatInput, initialLoad, calculation,
                   serverVars>>

\* the inner catch of handleChatSend without its chat message
intentFailedWithoutReply(messageText) ==
    /\ errorMessage' = Str(messageText)
    /\ UNCHANGED chatMessages

\* the inner catch of handleChatSend
intentFailed(messageText) ==
    /\ errorMessage' = Str(messageText)
    /\ chatMessages' = Append(chatMessages,
           createChatMessage("assistant",
               "I tried to calculate the fee but ran into an issue: "
                   \o messageText))

\* the fetch of the intent's calculateFee settles
IntentFeeSettles(outcome) ==
    /\ chat.pc = "awaitFee"
    /\ IF outcome = "ok"
       THEN /\ feeResult' = ResultFor(chat.request)
            /\ chatMessages' = Append(chatMessages,
                   createChatMessage("assistant",
                       "I found that fee for you. Here is the result:"))
            /\ last' = Event("intent.ok")
            /\ UNCHANGED errorMessage
       ELSE /\ intentFailed(failureText(outcome))
            /\ last' = Failure("intent.failed")
            /\ UNCHANGED feeResult
    /\ isChatLoading' = FALSE
    /\ chat' = Idle
    /\ UNCHANGED <<selectedAgency, selectedProcedure, selectedRole, unitsState,
                   isLoading, chatInput, initialLoad, calculation, serverVars>>

-----------------------------------------------------------------------------
(* Initial states: the environment and the data store are chosen once.     *)

\* the page as mounted: the useState initial values, loadInitialData started
InitPage ==
    /\ selectedAgency = ""
    /\ selectedProcedure = Str("")
    /\ selectedRole = "National"
    /\ unitsState = createDefaultUnits
    /\ isLoading = FALSE
    /\ errorMessage = Null
    /\ feeResult = NoResult
    /\ chatMessages = <<>>
    /\ chatInput = ""
    /\ isChatLoading = FALSE
    /\ initialLoad = "await"
    /\ calculation = Idle
    /\ chat = Idle
    /\ last = Event("mount")

InitProcess ==
    /\ cachedClient = "null"
    /\ req = NoRequest
    /\ pc = "idle"
    /\ units = <<>>
    /\ feeRules = <<>>
    /\ agencyCurrency = ""
    /\ componentNameMap = {}
    /\ ruleIndex = 0
    /\ totalFee = 0
    /\ feeBreakdown = <<>>
    /\ res = NoResponse
    /\ io = <<>>
    /\ created = 0
    /\ agenciesCall = NoCall
    /\ proceduresCall = NoCall
    /\ assistantCall = NoAsk
    /\ InitPage

\* no reference data, the current revision, a language-model key
InitQuiet ==
    /\ variant = "current"
    /\ apiKey = TRUE
    /\ tbl_agencies = <<>>
    /\ Tbl_Procedure_Types = <<>>

\* a healthy store, any rule table over the billing rows
InitBilling ==
    /\ InitQuiet
    /\ scenario = "billing"
    /\ configured = TRUE
    /\ flaky = {}
    /\ Tbl_Fee_Rules \in SeqsUpTo(CalcRuleRows, MaxRules)
    /\ Tbl_Agencies = <<TheAgency>>
    /\ Tbl_Fee_Components = TheComponents
    /\ memo = NoMemo(FALSE)

TwoRules == <<RuleRow(Num(1), Num(50), Null, Null),
              RuleRow(Num(2), Num(20), Num(1), Null)>>

\* any agency table, behind a lookup that may fail
InitAgencies ==
    /\ InitQuiet
    /\ scenario = "agencies"
    /\ configured = TRUE
    /\ flaky = {"Tbl_Agencies"}
    /\ Tbl_Fee_Rules \in {<<>>, TwoRules}
    /\ Tbl_Agencies \in AgencyTables
    /\ Tbl_Fee_Components = TheComponents
    /\ memo = NoMemo(FALSE)

\* any component table, behind a lookup that may fail
InitNames ==
    /\ InitQuiet
    /\ scenario = "names"
    /\ configured = TRUE
    /\ flaky = {"Tbl_Fee_Components"}
    /\ Tbl_Fee_Rules \in SeqsUpTo(NamedRuleRows, MaxRules)
    /\ Tbl_Agencies = <<TheAgency>>
    /\ Tbl_Fee_Components \in ComponentTables
    /\ memo = NoMemo(FALSE)

\* malformed requests, with or without configuration
InitValidation ==
    /\ InitQuiet
    /\ scenario = "validation"
    /\ configured \in BOOLEAN
    /\ flaky \in {{}, {"Tbl_Fee_Rules"}}
    /\ Tbl_Fee_Rules = TwoRules
    /\ Tbl_Agencies = <<TheAgency>>
    /\ Tbl_Fee_Components = TheComponents
    /\ memo = NoMemo(FALSE)

\* the observed process: one exchange is remembered
InitObserved ==
    /\ InitQuiet
    /\ scenario = "observed"
    /\ configured \in BOOLEAN
    /\ flaky \in {{}, AllTables}
    /\ Tbl_Fee_Rules = TwoRules
    /\ Tbl_Agencies = <<TheAgency>>
    /\ Tbl_Fee_Components = TheComponents
    /\ memo = NoMemo(TRUE)

\* unit lists of every kind, against a healthy store
InitSanitising ==
    /\ InitQuiet
    /\ scenario = "sanitising"
    /\ configured = TRUE
    /\ flaky = {}
    /\ Tbl_Fee_Rules = TwoRules
    /\ Tbl_Agencies = <<TheAgency>>
    /\ Tbl_Fee_Components = TheComponents
    /\ memo = NoMemo(FALSE)

\* the store of the fee calculation in the scenarios that are not about it
InitPlainStore ==
    /\ Tbl_Fee_Rules = TwoRules
    /\ Tbl_Agencies = <<TheAgency>>
    /\ Tbl_Fee_Components = TheComponents
    /\ memo = NoMemo(FALSE)

\* the rows a reference table of agencies can hold
ReferenceAgencies ==
    {ReferenceAgency(a, b, c, n) :
        a \in {Undef, Null, Str(""), Str("A1")},
        b \in {Undef, Str(""), Str("B2")},
        c \in {Undef, Str("x1")},
        n \in {Undef, Null, Str(" "), Str("Acme"), Str(" Acme ")}}

\* the rows a reference table of procedure types can hold
ProcedureRows ==
    {ProcedureRow(p, i, n, d) :
        p \in {Undef, Null, Num(7), Num(0)},
        i \in {Undef, Num(3)},
        n \in {Undef, Null, Str(" "), Str("Renewal")},
        d \in {Undef, Str(""), Str(" Renewal "), Str("New")}}

TwoAgencies == <<ReferenceAgency(Str("A1"), Undef, Undef, Str("Acme")),
                 ReferenceAgency(Undef, Undef, Str("x1"), Null)>>

TwoProcedures == <<ProcedureRow(Num(7), Undef, Null, Str("New")),
                   ProcedureRow(Undef, Num(3), Null, Null)>>

\* any agency row behind GET /api/agencies
InitListAgencies ==
    /\ scenario = "agencies.ts"
    /\ configured = TRUE
    /\ flaky = {}
    /\ InitPlainStore
    /\ variant = "current"
    /\ apiKey = TRUE
    /\ tbl_agencies \in {<<row>> : row \in ReferenceAgencies} \cup {<<>>, TwoAgencies}
    /\ Tbl_Procedure_Types = <<>>

\* any procedure row behind GET /api/procedures, in either revision
InitListProcedures ==
    /\ scenario = "procedures.ts"
    /\ configured = TRUE
    /\ flaky = {}
    /\ InitPlainStore
    /\ variant \in {"current", "draft"}
    /\ apiKey = TRUE
    /\ tbl_agencies = <<>>
    /\ Tbl_Procedure_Types \in {<<row>> : row \in ProcedureRows} \cup {<<>>, TwoProcedures}

\* the assistant proxy in front of a language model that may fail
InitAssistant ==
    /\ scenario = "assistant"
    /\ configured = TRUE
    /\ flaky \in {{}, {"AGENTS.MD", "llm"}}
    /\ InitPlainStore
    /\ variant = "current"
    /\ apiKey \in BOOLEAN
    /\ tbl_agencies = <<>>
    /\ Tbl_Procedure_Types = <<>>

\* the four handlers of one process, served interleaved
InitServer ==
    /\ scenario = "server"
    /\ configured \in BOOLEAN
    /\ flaky = {}
    /\ InitPlainStore
    /\ variant = "current"
    /\ apiKey = TRUE
    /\ tbl_agencies = TwoAgencies
    /\ Tbl_Procedure_Types = TwoProcedures

\* the contents the language-model API replies with
LlmContents(population) ==
    IF population = "assistant"
    THEN {Str("Which role applies?"), Str(" Which role applies? "), Str(" "),
          Str(""), Str("42"), Str(" 42 "), Str("\"hello\""), Str("null"),
          Str(IntentText), Str("{broken"), Null, Undef}
    ELSE {Str("Which role applies?")}

Init ==
    /\ InitProcess
    /\ \/ InitBilling
       \/ InitSanitising
       \/ InitAgencies
       \/ InitNames
       \/ InitValidation
       \/ InitObserved
       \/ InitListAgencies
       \/ InitListProcedures
       \/ InitAssistant
       \/ InitServer

Next ==
    \/ \E r \in Traffic(scenario) : Receive(r)
    \/ \E outcome \in Outcomes("Tbl_Fee_Rules") : RulesReply(outcome)
    \/ \E outcome \in Outcomes("Tbl_Agencies") : AgencyReply(outcome)
    \/ \E outcome \in Outcomes("Tbl_Agencies") : AgencyFallbackReply(outcome)
    \/ \E outcome \in Outcomes("Tbl_Fee_Components") : ComponentsReply(outcome)
    \/ LoopStep
    \/ Respond
    \/ Remember
    \/ \E method \in ListTraffic(scenario, "agencies.ts") : AgenciesReceive(method)
    \/ \E outcome \in Outcomes("tbl_agencies") : AgenciesReply(outcome)
    \/ \E method \in ListTraffic(scenario, "procedures.ts") : ProceduresReceive(method)
    \/ \E outcome \in Outcomes("Tbl_Procedure_Types") : ProceduresReply(outcome)
    \/ \E r \in AskTraffic(scenario) : AssistantReceive(r)
    \/ \E outcome \in Outcomes("AGENTS.MD") \ {"error"} : PromptReply(outcome)
    \/ \E outcome \in Outcomes("llm") :
          \E content \in IF outcome = "ok" THEN LlmContents(scenario) ELSE {Undef} :
             LlmReply(outcome, content)

Spec == Init /\ [][Next]_vars

\* The page alone: the handlers answer its fetches in every way they can.
UIInit ==
    /\ InitProcess
    /\ InitQuiet
    /\ InitPlainStore
    /\ scenario \in Sessions
    /\ configured = TRUE
    /\ flaky = {}

UINext ==
    \/ \E value \in AgencyOptions(scenario) : SelectAgency(value)
    \/ \E nextValue \in ProcedureOptions(scenario) : SelectProcedure(nextValue)
    \/ \E value \in RoleChoices(scenario) : SelectRole(value)
    \/ \E componentId \in EditedComponents(scenario) : \E quantity \in QuantityChoices :
          handleUnitChange(componentId, quantity)
    \/ \E value \in ChatTexts : TypeChat(value)
    \/ \E outcome \in FetchOutcomes : LoadSettles(outcome)
    \/ ClickCalculate
    \/ \E outcome \in FetchOutcomes : CalculateSettles(outcome)
    \/ ChatSend
    \/ \E outcome \in FetchOutcomes :
          \E payload \in IF outcome = "ok" THEN AssistantReplies(scenario) ELSE {Text("")} :
             AssistantSettles(outcome, payload)
    \/ \E outcome \in FetchOutcomes : IntentFeeSettles(outcome)

UISpec == UIInit /\ [][UINext]_vars

-----------------------------------------------------------------------------
(* Properties of the billing loop *)

RECURSIVE SumAmounts(_)
SumAmounts(items) ==
    IF items = <<>> THEN 0 ELSE Head(items).amount + SumAmounts(Tail(items))

\* the loop is about to process rule k of the matched rules
AtRule(k) == pc = "loop" /\ ruleIndex = k /\ k \in 1..Len(feeRules)

\* the loop has just processed rule k of the matched rules
PastRule(k) == pc = "loop" /\ ruleIndex = k + 1 /\ k \in 1..Len(feeRules)

\* the stored component id of a rule, as a number when it is numeric
HasComponentId(rule, id) == getRuleComponentId(rule) = Num(id)

\* the sanitised units naming a component, in the caller's order
UnitsFor(id) == SelectSeq(units, LAMBDA u : u.componentId = id)

\* C1: every 200 response has totalFee equal to the sum of the amounts of
\* its feeBreakdown items, and totalFee is never negative.
C1_TotalIsSumOfBreakdown ==
    res.status = 200 =>
        /\ res.totalFee = SumAmounts(res.feeBreakdown)
        /\ res.totalFee >= 0

C1_Witness ==
    /\ res.status = 200
    /\ Len(res.feeBreakdown) = 2
    /\ res.feeBreakdown[1].componentName.x = 0
    /\ res.feeBreakdown[2].componentName.x > 0
    /\ res.totalFee = 90

\* the matched rules that carry a base fee: component id 1, positive amount
BaseRules ==
    SelectSeq(feeRules, LAMBDA rule : HasComponentId(rule, 1)
                                      /\ toNumber(rule.amount, Num(0)).n > 0)

PlainItems(items) == SelectSeq(items, LAMBDA item : item.componentName.x = 0)

C2_StepChargesBaseOnce ==
    \A k \in 1..MaxRules + 1 :
        (AtRule(k) /\ HasComponentId(feeRules[k], 1)
                   /\ toNumber(feeRules[k].amount, Num(0)).n > 0)
        => /\ totalFee' = totalFee + toNumber(feeRules[k].amount, Num(0)).n
           /\ Len(feeBreakdown') = Len(feeBreakdown) + 1
           /\ feeBreakdown'[Len(feeBreakdown')].amount
                 = toNumber(feeRules[k].amount, Num(0)).n
           /\ feeBreakdown'[Len(feeBreakdown')].componentName.x = 0
           /\ SubSeq(feeBreakdown', 1, Len(feeBreakdown)) = feeBreakdown

C2_ResponseHasEachBaseOnce ==
    (res.status = 200 /\ feeRules # <<>>) =>
        /\ Len(PlainItems(res.feeBreakdown)) = Len(BaseRules)
        /\ \A j \in 1..Len(BaseRules) :
              PlainItems(res.feeBreakdown)[j].amount
                  = toNumber(BaseRules[j].amount, Num(0)).n
        /\ res.totalFee - SumAmounts(SelectSeq(res.feeBreakdown,
                              LAMBDA item : item.componentName.x # 0))
              = SumAmounts(PlainItems(res.feeBreakdown))

BillsByUnit(rule, supplied, itemDue) ==
    LET included == getIncludedQuantity(rule)
        amountPerUnit == getRuleAmount(rule)
        name == getRuleComponentName(rule, componentNameMap,
                                     getRuleComponentId(rule))
    IN /\ totalFee' = totalFee + Max(0, supplied - included) * amountPerUnit
       /\ IF itemDue
          THEN feeBreakdown' =
                  Append(feeBreakdown,
                         [componentName |-> [name EXCEPT !.x = supplied - included],
                          amount |-> (supplied - included) * amountPerUnit])
          ELSE feeBreakdown' = feeBreakdown

\* C3 as stated: every matched rule whose component id is not 1, for which
\* the caller supplied a unit, contributes max(0, supplied - included) *
\* amountPerUnit and yields an item exactly when supplied > included.
C3_AsStated ==
    [][\A k \in 1..MaxRules + 1 :
          (AtRule(k) /\ ~HasComponentId(feeRules[k], 1)
                     /\ getRuleComponentId(feeRules[k]).t = "number"
                     /\ UnitsFor(getRuleComponentId(feeRules[k]).n) # <<>>)
          => LET rule == feeRules[k]
                 supplied == UnitsFor(getRuleComponentId(rule).n)[1].quantity
             IN BillsByUnit(rule, supplied,
                            supplied > getIncludedQuantity(rule))]_feeCall

\* C3 (amended): every matched rule whose component id is a positive number
\* other than 1, for which the caller supplied a unit, contributes
\* max(0, supplied - included) * amountPerUnit, where supplied is the
\* quantity of the first unit with that component id and amountPerUnit is
\* floored at 0; it yields the item "{name} (x{billable})" exactly when
\* supplied > included and amountPerUnit > 0, and nothing otherwise.
C3_UnitBilling ==
    [][\A k \in 1..MaxRules + 1 :
          (AtRule(k) /\ ~HasComponentId(feeRules[k], 1)
                     /\ getRuleComponentId(feeRules[k]).t = "number"
                     /\ getRuleComponentId(feeRules[k]).n > 0
                     /\ UnitsFor(getRuleComponentId(feeRules[k]).n) # <<>>)
          => LET rule == feeRules[k]
                 supplied == UnitsFor(getRuleComponentId(rule).n)[1].quantity
             IN BillsByUnit(rule, supplied,
                            /\ supplied > getIncludedQuantity(rule)
                            /\ getRuleAmount(rule) > 0)]_feeCall

\* a rule of component 2 with included quantity 1 has just billed 3 - 1
\* units of 20
C3_Witness ==
    /\ PastRule(1)
    /\ HasComponentId(feeRules[1], 2)
    /\ getIncludedQuantity(feeRules[1]) = 1
    /\ UnitsFor(2) # <<>>
    /\ UnitsFor(2)[1].quantity = 3
    /\ totalFee = 40
    /\ Len(feeBreakdown) = 1
    /\ feeBreakdown[1].componentName.x = 2

\* C4: a matched rule whose component id is not 1, and for which the
\* sanitised unit list has no entry with that component id, adds 0 to
\* totalFee and appends no breakdown item.
C4_NoUnitNoCharge ==
    [][\A k \in 1..MaxRules + 1 :
          (AtRule(k) /\ ~HasComponentId(feeRules[k], 1)
                     /\ \A j \in 1..Len(units) :
                           Num(units[j].componentId)
                               # getRuleComponentId(feeRules[k]))
          => /\ totalFee' = totalFee
             /\ feeBreakdown' = feeBreakdown]_feeCall

\* a positive rule of component 2 was passed over although other units
\* were supplied
C4_Witness ==
    /\ PastRule(1)
    /\ HasComponentId(feeRules[1], 2)
    /\ getRuleAmount(feeRules[1]) > 0
    /\ units # <<>>
    /\ UnitsFor(2) = <<>>
    /\ totalFee = 0
    /\ feeBreakdown = <<>>

\* the stored amount of a rule is missing, non-numeric, zero or negative
StoredAmountNotPositive(rule) ==
    \/ rule.amount.t \notin {"number", "string"}
    \/ rule.amount.t = "number" /\ rule.amount.n <= 0
    \/ rule.amount.t = "string" /\ StringToNumber(rule.amount.s).t # "number"
    \/ rule.amount.t = "string" /\ StringToNumber(rule.amount.s).n <= 0

\* C5: a rule whose amountPerUnit is <= 0 (negative, missing or non-numeric
\* stored amounts included) never changes totalFee nor produces a breakdown
\* item, for component 1 and the others alike; and every breakdown item's
\* amount is strictly positive.
C5_NonPositiveAmountSkipped ==
    /\ [][\A k \in 1..MaxRules + 1 :
            (AtRule(k) /\ StoredAmountNotPositive(feeRules[k]))
            => /\ totalFee' = totalFee
               /\ feeBreakdown' = feeBreakdown]_feeCall
    /\ [](\A j \in 1..Len(feeBreakdown) : feeBreakdown[j].amount > 0)
    /\ [](\A j \in 1..Len(res.feeBreakdown) : res.feeBreakdown[j].amount > 0)

\* a base-fee rule with a negative amount was passed over, and a later rule
\* produced an item
C5_Witness ==
    /\ res.status = 200
    /\ Len(feeRules) = 2
    /\ HasComponentId(feeRules[1], 1)
    /\ feeRules[1].amount = Num(0 - 5)
    /\ Len(res.feeBreakdown) = 1
    /\ res.feeBreakdown[1].amount = res.totalFee

-----------------------------------------------------------------------------
(* Properties of whole exchanges *)

\* the request has been answered, or its handler has ended by an exception
Ended == pc \in {"done", "unhandled"}

\* a logged interaction with the data store
Logged(log, op, outcome) ==
    \E j \in 1..Len(log) : log[j].op = op /\ log[j].outcome = outcome

Touched(log, op) == \E j \in 1..Len(log) : log[j].op = op

RulesQuerySucceeded(log) == Logged(log, "Tbl_Fee_Rules", "ok")

AgencyLookupFailed(log) ==
    \E j \in 1..Len(log) :
        /\ log[j].op \in {"Tbl_Agencies.agency_id", "Tbl_Agencies.id"}
        /\ log[j].outcome # "ok"

ComponentLookupFailed(log) ==
    \E j \in 1..Len(log) :
        log[j].op = "Tbl_Fee_Components" /\ log[j].outcome # "ok"

NoLookupFailed(log) == \A j \in 1..Len(log) : log[j].outcome = "ok"

\* a request field that is not a string, or is empty once trimmed
NotAStringOrBlank(v) == v.t # "string" \/ v.s \in {"", " "}

\* the rows of Tbl_Fee_Rules stored for the request's triple
StoredRulesFor(r) ==
    SelectSeq(Tbl_Fee_Rules,
              LAMBDA row : /\ Str(row.agency_id) = Str(Trim(r.agencyId.s))
                           /\ Num(row.procedure_id) = numericProcedureId(r.procedureId)
                           /\ Str(row.role) = Str(Trim(r.role.s)))

\* the agency record of the request: the row whose agency_id is the trimmed
\* agencyId or, when there is none, the row whose id is
AgencyRecords(r) ==
    LET byAgencyId == SelectSeq(Tbl_Agencies,
                                LAMBDA row : row.agency_id = Trim(r.agencyId.s))
        byId == SelectSeq(Tbl_Agencies, LAMBDA row : row.id = Trim(r.agencyId.s))
    IN IF byAgencyId # <<>> THEN byAgencyId ELSE byId

NonBlank(v) == v.t = "string" /\ v.s \notin {"", " "}

\* the currency a response must carry
ExpectedCurrency(r, log) ==
    LET records == AgencyRecords(r)
    IN IF AgencyLookupFailed(log) \/ records = <<>> THEN "USD"
       ELSE IF NonBlank(records[1].currency) THEN Trim(records[1].currency.s)
       ELSE IF NonBlank(records[1].currency_code)
            THEN Trim(records[1].currency_code.s)
       ELSE "USD"

RECURSIVE Amounts(_)
Amounts(items) ==
    IF items = <<>> THEN <<>> ELSE <<Head(items).amount>> \o Amounts(Tail(items))

\* what the data store answered, query by query
StoreReplies(log) ==
    SelectSeq(log, LAMBDA e : e.op # "getSupabaseServerClient")

\* the store gave both exchanges the same answer to each query both made
SameAnswers(a, b) ==
    \A j \in 1..Len(a) : j <= Len(b) => a[j] = b[j]

\* C6: two exchanges with the same request, served against the same data
\* (the same tables, the same answers of the store to the same queries),
\* end the same way with the same response, however many requests were
\* served between them: nothing a calculation leaves behind affects a
\* later one.
C6_Idempotent ==
    (Ended /\ memo.set /\ memo.req = req
           /\ SameAnswers(StoreReplies(memo.io), StoreReplies(io)))
    => /\ memo.pc = pc
       /\ memo.io = io
       /\ memo.res.status = res.status
       /\ memo.res.totalFee = res.totalFee
       /\ memo.res.currency = res.currency
       /\ memo.res.feeBreakdown = res.feeBreakdown
       /\ memo.res.error = res.error

\* the remembered request was answered 200 with two items, another request
\* was served, and the same request has been answered again
C6_Witness ==
    /\ pc = "done"
    /\ memo.set
    /\ memo.req = req
    /\ SameAnswers(StoreReplies(memo.io), StoreReplies(io))
    /\ memo.since = 2
    /\ res.status = 200
    /\ Len(res.feeBreakdown) = 2
    /\ memo.res = res

\* C7: when the rule query succeeds and no rule is stored for the request's
\* (agencyId, procedureId, role), the answer is 200 with totalFee 0, an
\* empty feeBreakdown and the resolved agency currency, and the
\* component-name lookup is not issued.
C7_NoRulesIsEmptySuccess ==
    (Ended /\ RulesQuerySucceeded(io) /\ StoredRulesFor(req) = <<>>)
    => /\ res = SuccessResponse(0, ExpectedCurrency(req, io), <<>>)
       /\ ~Touched(io, "Tbl_Fee_Components")

\* rules are stored, but none for the role asked for
C7_Witness ==
    /\ pc = "done"
    /\ RulesQuerySucceeded(io)
    /\ Tbl_Fee_Rules # <<>>
    /\ StoredRulesFor(req) = <<>>
    /\ req.role = Str("CMS")
    /\ res.status = 200
    /\ res.currency = "EUR"

\* C8: the currency of a 200 response is "USD" when the agency record is not
\* found by agency_id nor by id (a failed lookup finds none), or has no
\* non-blank currency or currency_code; otherwise it is the record's
\* currency, else its currency_code, without surrounding blanks.  It does
\* not depend on the matched rules or the units.
C8_CurrencyResolution ==
    res.status = 200 => res.currency = ExpectedCurrency(req, io)

\* the record was found by id and has a currency_code but no currency
C8_Witness ==
    /\ res.status = 200
    /\ ~AgencyLookupFailed(io)
    /\ Touched(io, "Tbl_Agencies.id")
    /\ feeRules # <<>>
    /\ res.currency = "GBP"

\* the names an item can have when no component name was resolved: the
\* rule's own trimmed name, or "Component {id}"
DegradedName(item) ==
    \/ item.componentName.text = "Component " /\ item.componentName.id > 0
    \/ \E k \in 1..Len(feeRules) :
          /\ NonBlank(feeRules[k].component_name)
          /\ item.componentName.text = Trim(feeRules[k].component_name.s)
          /\ item.componentName.id = 0

\* the iterations of the loop run with every component name resolved
RECURSIVE WithAllNames(_, _)
WithAllNames(rules, acc) ==
    IF rules = <<>> THEN acc
    ELSE LET step == loopBody(Head(rules), units,
                              fillNameMap(selectComponents(componentIdsOf(feeRules)), {}))
         IN WithAllNames(Tail(rules),
                         [total |-> acc.total + step.add,
                          items |-> acc.items \o step.push])

\* C9: once the rule query has succeeded, a failed agency lookup or a failed
\* component-name lookup (an error result or an exception) never gives an
\* error response: the answer is 200, with "USD" when the agency lookup
\* failed and rule-level or synthesized names when the name lookup failed,
\* and with the totalFee and the breakdown amounts of the exchange in which
\* both lookups succeed.
C9_LookupFailuresDegrade ==
    (Ended /\ RulesQuerySucceeded(io))
    => /\ res.status = 200
       /\ AgencyLookupFailed(io) => res.currency = "USD"
       /\ ComponentLookupFailed(io) =>
             \A j \in 1..Len(res.feeBreakdown) : DegradedName(res.feeBreakdown[j])
       /\ LET reference == WithAllNames(feeRules, [total |-> 0, items |-> <<>>])
          IN /\ res.totalFee = reference.total
             /\ Amounts(res.feeBreakdown) = Amounts(reference.items)
       /\ (memo.set /\ memo.req = req /\ NoLookupFailed(memo.io))
          => /\ res.totalFee = memo.res.totalFee
             /\ Amounts(res.feeBreakdown) = Amounts(memo.res.feeBreakdown)

\* both lookups failed, and the answer matches the remembered exchange of
\* the same request in which both succeeded, except for currency and names
C9_Witness ==
    /\ pc = "done"
    /\ AgencyLookupFailed(io)
    /\ ComponentLookupFailed(io)
    /\ memo.set
    /\ memo.req = req
    /\ NoLookupFailed(memo.io)
    /\ memo.res.currency = "EUR"
    /\ res.status = 200
    /\ res.currency = "USD"
    /\ Len(res.feeBreakdown) = 2
    /\ res.feeBreakdown # memo.res.feeBreakdown
    /\ res.totalFee = memo.res.totalFee

\* C10: a POST whose agencyId is not a string or is blank, or whose role is
\* not a string or is blank, is answered 400 with a message at once: the
\* data-store client is neither obtained nor queried for it.
C10_ValidationBeforeIO ==
    (req.method = "POST"
        /\ (NotAStringOrBlank(req.agencyId) \/ NotAStringOrBlank(req.role)))
    => /\ pc = "done"
       /\ res.status = 400
       /\ res.error \in {"agencyId is required.", "procedureId must be a number.",
                         "role is required."}
       /\ io = <<>>

\* a blank role is rejected in a process that has no configuration and no
\* client yet
C10_Witness ==
    /\ pc = "done"
    /\ req.method = "POST"
    /\ ~NotAStringOrBlank(req.agencyId)
    /\ req.role = Str(" ")
    /\ ~configured
    /\ cachedClient = "null"
    /\ res = ErrorResponse(400, "role is required.")
    /\ io = <<>>

-----------------------------------------------------------------------------
(* Properties of request validation and unit sanitisation *)

\* the strings of the universe that spell a finite number
Numerals == {"1", "2", "3", "7", "20", "-1"}

\* the value is a finite number, or a string that spells one
ParsesToFinite(v) == v.t = "number" \/ (v.t = "string" /\ v.s \in Numerals)

\* the fee-rule query has been issued for the current request
RulesQueryIssued == pc = "awaitRules" \/ Touched(io, "Tbl_Fee_Rules")

\* C11: a POST whose procedureId does not parse to a finite number (a value
\* that is neither number nor string, a non-numeric string, an empty or
\* blank string, an infinite value) is answered 400, and the rule query is
\* only ever issued with a finite numeric procedure id.
C11_NonFiniteProcedureIdRejected ==
    /\ (req.method = "POST" /\ ~ParsesToFinite(req.procedureId))
       => (pc = "done" /\ res.status = 400)
    /\ RulesQueryIssued => numericProcedureId(req.procedureId).t = "number"

\* the entries the sanitisation is to keep: numeric component id, numeric
\* quantity that is not negative; numerals are taken at their value
RECURSIVE NumericEntries(_)
NumericEntries(items) ==
    IF items = <<>> THEN <<>>
    ELSE LET unit == Head(items)
             value(v) == IF v.t = "number" THEN v.n ELSE StringToNumber(v.s).n
         IN IF /\ ParsesToFinite(unit.componentId)
               /\ ParsesToFinite(unit.quantity)
               /\ value(unit.quantity) >= 0
            THEN <<[componentId |-> value(unit.componentId),
                    quantity |-> value(unit.quantity)]>>
                 \o NumericEntries(Tail(items))
            ELSE NumericEntries(Tail(items))

\* the body of the request passes the three field checks
WellFormed(r) ==
    /\ r.method = "POST"
    /\ NonBlank(r.agencyId)
    /\ ParsesToFinite(r.procedureId)
    /\ NonBlank(r.role)

\* C12: the sanitised unit list is, in the original order, exactly the
\* entries of the request's units whose componentId is numeric and whose
\* quantity is numeric and >= 0; every other entry, and a units value that
\* is not an array, is dropped without a 400, and no dropped entry is kept
\* with a zero quantity in its place.
C12_SanitisationKeepsNumericEntries ==
    WellFormed(req) =>
        /\ units = IF req.units.array THEN NumericEntries(req.units.items) ELSE <<>>
        /\ res.status # 400

\* C13: every request to the calculate-fee handler ends with one HTTP
\* response, 200, 400, 405 or 500 with an {error} body, whatever fails: the
\* rule query, an exception in a query, or the construction of the
\* data-store client without configuration; no exception leaves the handler.
C13_AlwaysOneResponse ==
    /\ pc # "unhandled"
    /\ pc = "done" =>
          /\ res.status \in {200, 400, 405, 500}
          /\ res.status # 200 => res.error # ""

-----------------------------------------------------------------------------
(* Properties of the four endpoints *)

\* a reference-data invocation answered 405 before doing anything else
ListRefused(call) ==
    /\ call.pc = "done"
    /\ call.res.status = 405
    /\ call.res.allow = "GET"
    /\ call.res.error # ""
    /\ call.io = <<>>
    /\ call.supabase = 0

\* C14: on each of the four endpoints a request whose method is not the
\* accepted one (GET for agencies and procedures, POST for calculate-fee
\* and ask-assistant) is answered 405 with an Allow header naming the
\* accepted method, whatever its body, and without any data-store or
\* language-model call.
C14_WrongMethodIs405 ==
    /\ req.method \notin {"", "POST"} =>
          /\ pc = "done"
          /\ res.status = 405 /\ res.allow = "POST" /\ res.error # ""
          /\ io = <<>>
    /\ agenciesCall.method \notin {"", "GET"} => ListRefused(agenciesCall)
    /\ proceduresCall.method \notin {"", "GET"} => ListRefused(proceduresCall)
    /\ assistantCall.method \notin {"", "POST"} =>
          /\ assistantCall.pc = "done"
          /\ assistantCall.res.status = 405
          /\ assistantCall.res.allow = "POST"
          /\ assistantCall.res.error # ""
          /\ assistantCall.io = <<>>

\* all four endpoints have refused a request, calculate-fee and
\* ask-assistant one without a usable body, in a process that has no
\* configuration and never built a client
C14_Witness ==
    /\ req.method = "GET" /\ req.agencyId = Undef /\ res.status = 405
    /\ agenciesCall.method = "POST" /\ agenciesCall.res.status = 405
    /\ proceduresCall.method = "POST" /\ proceduresCall.res.status = 405
    /\ assistantCall.method = "GET" /\ assistantCall.message = Undef
    /\ assistantCall.res.status = 405
    /\ ~configured
    /\ created = 0

\* the texts of the universe that are JSON, and the values they denote
\* (JSON allows blanks around a value)
JsonTexts == {"42", " 42 ", "\"hello\"", "null", IntentText}

ValueOfJson(text) ==
    CASE text \in {"42", " 42 "} -> Num(42)
      [] text = "\"hello\""     -> Str("hello")
      [] text = "null"            -> Null
      [] text = IntentText        -> Object(IntentText)

\* the language-model API has replied to the current request with content
Replied == /\ assistantCall.pc = "done"
           /\ Logged(assistantCall.io, "llm", "ok")
           /\ assistantCall.content.t = "string"

-----------------------------------------------------------------------------
(* Properties of the reference-data normalizer *)

\* a candidate value that is present and not empty
NonEmpty(v) == ~IsNullish(v) /\ v # Str("")

\* the first candidate that is present and not empty (Undef when none is)
RECURSIVE FirstNonEmpty(_)
FirstNonEmpty(candidates) ==
    IF candidates = <<>> THEN Undef
    ELSE IF NonEmpty(Head(candidates)) THEN Head(candidates)
    ELSE FirstNonEmpty(Tail(candidates))

\* the rows the deployed revision of the procedures handler gets back
ProceduresReturned == selectProcedureTypes(variant)

AgencyIdsAreFirstNonEmpty ==
    agenciesCall.res.status = 200 =>
        \A k \in 1..Len(tbl_agencies) :
            LET row == tbl_agencies[k]
                first == FirstNonEmpty(<<row.agency_id, row.agencyid, row.id>>)
            IN first # Undef => Str(agenciesCall.res.list[k].id) = first

ProcedureIdsAreFirstNonEmpty ==
    proceduresCall.res.status = 200 =>
        \A k \in 1..Len(ProceduresReturned) :
            LET row == ProceduresReturned[k]
                first == FirstNonEmpty(<<row.procedure_id, row.id>>)
            IN first # Undef => proceduresCall.res.list[k].id = first

\* C16: for every row returned by the reference tables, the id reported by
\* listAgencies (candidates agency_id, agencyid, id, in that order) and by
\* listProcedures (candidates procedure_id, id) is the first candidate that
\* is present and non-empty: an empty candidate of higher priority never
\* masks a non-empty one of lower priority.
C16_IdIsFirstNonEmptyCandidate ==
    AgencyIdsAreFirstNonEmpty /\ ProcedureIdsAreFirstNonEmpty

\* the display name of a row is absent or blank, under each of its columns
Unnamed(v) == IsNullish(v) \/ v \in {Str(""), Str(" ")}

\* C17: for every reference row whose display name is absent or blank,
\* listProcedures returns the name "Procedure {id}", where {id} is the id it
\* returns for that row, and listAgencies returns the name
\* "Untitled Agency".
C17_SynthesizedNames ==
    /\ proceduresCall.res.status = 200 =>
          \A k \in 1..Len(ProceduresReturned) :
              LET row == ProceduresReturned[k]
                  entry == proceduresCall.res.list[k]
              IN (Unnamed(row.display_name) /\ Unnamed(row.name))
                 => entry.name = [text |-> "Procedure ", id |-> entry.id]
    /\ agenciesCall.res.status = 200 =>
          \A k \in 1..Len(tbl_agencies) :
              Unnamed(tbl_agencies[k].name)
              => agenciesCall.res.list[k].name = "Untitled Agency"

-----------------------------------------------------------------------------
(* Properties of the shared data-store client *)

\* the invocations whose call of getSupabaseServerClient() threw
ClientFailures ==
    {h \in {"calculate-fee", "agencies", "procedures"} :
        LET log == CASE h = "calculate-fee" -> io
                     [] h = "agencies"      -> agenciesCall.io
                     [] h = "procedures"    -> proceduresCall.io
        IN Logged(log, "getSupabaseServerClient", "throw")}

\* an invocation that obtained a handle holds the first one built
HoldsTheHandle(call) ==
    /\ call.supabase \in {0, created}
    /\ call.pc = "await" => call.supabase = 1

\* without configuration a GET on a reference-data handler is answered 500
FailsCleanly(call) ==
    (call.pc = "done" /\ call.method = "GET" /\ ~configured)
    => call.res = ListError(500, "Unexpected error occurred.")

\* C18: whatever requests the handlers of one process serve, and however
\* they interleave, createClient runs at most once and every invocation
\* that obtained a handle holds the one it built; without configuration
\* nothing is ever cached, only the invocations that asked for the client
\* fail, and the others are answered as usual.
C18_OneClientPerProcess ==
    /\ created <= 1
    /\ cachedClient # "null" <=> created = 1
    /\ HoldsTheHandle(agenciesCall)
    /\ HoldsTheHandle(proceduresCall)
    /\ RulesQueryIssued => created = 1
    /\ ~configured => cachedClient = "null"
    /\ ClientFailures # {} => ~configured
    /\ pc = "unhandled" => "calculate-fee" \in ClientFailures
    /\ FailsCleanly(agenciesCall)
    /\ FailsCleanly(proceduresCall)
    /\ (req.method = "POST" /\ pc = "done" /\ ~configured) => res.status = 400
    /\ (assistantCall.pc = "done" /\ Logged(assistantCall.io, "llm", "ok")
           /\ assistantCall.content = Str("Which role applies?"))
       => assistantCall.res.status = 200

\* three requests in flight on three handlers, all holding the one handle
C18_Witness ==
    /\ created = 1
    /\ pc = "awaitRules"
    /\ agenciesCall.pc = "await" /\ agenciesCall.supabase = 1
    /\ proceduresCall.pc = "await" /\ proceduresCall.supabase = 1
    /\ assistantCall.pc = "awaitLlm"

-----------------------------------------------------------------------------
(* The page: failures of its fetches.                                      *)

\* the page has just handled the failure of a fetch
FailureEvents == {"calculate.failed", "assistant.failed", "intent.failed"}

\* the handling of the failure appended one assistant message
AppendedOne ==
    /\ Len(chatMessages) = last.chatLen + 1
    /\ chatMessages[Len(chatMessages)].sender = "assistant"

\* C19 as stated: every failed calculation (Calculate button or assistant
\* intent) and every failed assistant request both appends a failure
\* message to the transcript and sets the error banner.
C19_AsStated ==
    last.event \in FailureEvents => AppendedOne /\ errorMessage # Null

\* C19: a failed calculation started from the Calculate button sets the
\* error banner and appends nothing to the transcript; a failed assistant
\* request appends one failure message to the transcript and leaves the
\* banner as it was; a failed calculation started from an assistant intent
\* sets the banner and appends one failure message.
C19_FailureSurfaced ==
    /\ last.event = "calculate.failed" =>
          errorMessage # Null /\ Len(chatMessages) = last.chatLen
    /\ last.event = "assistant.failed" =>
          AppendedOne /\ errorMessage = last.banner
    /\ last.event = "intent.failed" => AppendedOne /\ errorMessage # Null

\* an assistant request has failed: its message is in the transcript and
\* no banner is shown
C19_Witness ==
    /\ last.event = "assistant.failed"
    /\ errorMessage = Null
    /\ chatMessages[2].content = "Sorry, something went wrong: Failed to fetch"

\* C20 as stated: after a failed calculate-fee or ask-assistant call the
\* selected agency, procedure and role, the unit quantities and the last
\* fee result are what they were before.
C20_AsStated ==
    last.event \in FailureEvents => Form = last.form

\* C20: the handling of a failed calculate-fee or ask-assistant call leaves
\* the selected agency, procedure and role and the unit quantities as they
\* were; the last fee result is left as it was when the call was made for
\* the assistant, and is cleared when it was made for the Calculate button.
C20_FailureKeepsSelection ==
    last.event \in FailureEvents =>
       /\ <<selectedAgency, selectedProcedure, selectedRole, unitsState>>
             = <<last.form[1], last.form[2], last.form[3], last.form[4]>>
       /\ feeResult = IF last.event = "calculate.failed" THEN NoResult
                      ELSE last.form[5]

\* a second calculation for a selection whose result is displayed fails:
\* the selection stays and the result is gone
C20_Witness ==
    /\ last.event = "calculate.failed"
    /\ last.form[5].set
    /\ ~feeResult.set
    /\ selectedAgency = "A1" /\ unitsState[1].quantity = 3

-----------------------------------------------------------------------------
(* The page: the form and the assistant's replies.                         *)

\* the positive quantities a reply of the assistant names for a component
IntentQuantities(payload, componentId) ==
    LET items == payload.fields.units.items
    IN {NumberOf(items[j].quantity).n :
           j \in {i \in 1..Len(items) :
                     /\ NumberOf(items[i].componentId) = Num(componentId)
                     /\ NumberOf(items[i].quantity).t = "number"
                     /\ NumberOf(items[i].quantity).n > 0}}

\* the quantities are the defaults
UnitsReset == \A k \in 1..Len(unitsState) : unitsState[k].quantity = 0

\* a step that changes the selected procedure leaves every quantity at 0,
\* or, when it applies an intent, at 0 or at a quantity the intent names
C21_StepResetsUnits ==
    selectedProcedure' # selectedProcedure =>
       /\ Len(unitsState') = Len(BASE_UNIT_INPUTS)
       /\ \A k \in 1..Len(BASE_UNIT_INPUTS) :
             /\ unitsState'[k].componentId = BASE_UNIT_INPUTS[k]
             /\ \/ unitsState'[k].quantity = 0
                \/ /\ last'.event = "intent"
                   /\ unitsState'[k].quantity
                         \in IntentQuantities(last'.payload, BASE_UNIT_INPUTS[k])

\* C21: after any sequence of events, every change of the selected
\* procedure, through the dropdown or through an applied assistant intent,
\* resets the unit quantities: no quantity entered under the previous
\* procedure survives; each is 0 or, for an intent, what the intent names.
C21_ProcedureChangeResetsUnits == [][C21_StepResetsUnits]_vars

\* an intent without units has just replaced procedure 8, for which a
\* result with a quantity of 3 is still displayed: the quantities are 0
C21_Witness ==
    /\ last.event = "intent"
    /\ selectedProcedure = Num(7)
    /\ feeResult.set
    /\ feeResult.for.procedureId = Num(8)
    /\ feeResult.for.units = <<[componentId |-> 2, quantity |-> 3]>>
    /\ UnitsReset

\* the field of a reply under its name or, when that is absent, its alias
Given(fields, name, alias) ==
    IF IsNullish(fields[name]) THEN fields[alias] ELSE fields[name]

\* the spellings of the universe that match a role option
RoleSpellings ==
    {"National", "national", " National ", "CMS", "cms", "RMS", "rms"}

\* the strings of the universe that spell a number
NumberSpellings == Numerals \cup {"Infinity"}

\* the reply is an object with a non-empty agency id, a numeric procedure
\* id and a role matching one of National, CMS, RMS
IsIntent(payload) ==
    LET agency == Given(payload.fields, "agencyId", "agency_id")
        procedure == Given(payload.fields, "procedureId", "procedure_id")
        role == Given(payload.fields, "role", "Role")
    IN /\ payload.kind = "object"
       /\ agency.t = "string" /\ agency.s \notin {"", " "}
       /\ \/ procedure.t \in {"number", "infinity"}
          \/ procedure.t = "string" /\ procedure.s \in NumberSpellings
       /\ role.t = "string" /\ role.s \in RoleSpellings

\* the handling of a successful response of ask-assistant
C22_StepAppliesIntentsOnly ==
    (chat.pc = "await" /\ last'.event \in {"intent", "reply"}) =>
       LET payload == last'.payload
       IN /\ last'.event = "intent" <=> IsIntent(payload)
          /\ IsIntent(payload) =>
                /\ chat'.pc = "awaitFee"
                /\ selectedAgency'
                      = Trim(Given(payload.fields, "agencyId", "agency_id").s)
                /\ selectedProcedure'
                      = NumberOf(Given(payload.fields, "procedureId",
                                       "procedure_id"))
                /\ lowerTrim(selectedRole')
                      = lowerTrim(Given(payload.fields, "role", "Role").s)
                /\ \E k \in 1..Len(ROLE_OPTIONS) : selectedRole' = ROLE_OPTIONS[k]
                /\ chat'.request.agencyId = selectedAgency'
                /\ chat'.request.procedureId = selectedProcedure'
                /\ chat'.request.role = selectedRole'
                /\ chat'.request.units
                      = SelectSeq(unitsState', LAMBDA unit : unit.quantity > 0)
                /\ chatMessages' = chatMessages
          /\ ~IsIntent(payload) =>
                /\ Form' = Form
                /\ chat'.pc = "idle"
                /\ calculation' = calculation
                /\ Len(chatMessages') = Len(chatMessages) + 1
                /\ SubSeq(chatMessages', 1, Len(chatMessages)) = chatMessages
                /\ chatMessages'[Len(chatMessages')].sender = "assistant"
                /\ payload.kind = "string" =>
                      chatMessages'[Len(chatMessages')].content = payload.text

\* C22: on a successful assistant response the page sets the selected
\* agency, procedure, role and units and starts the fee calculation if and
\* only if the reply is an object with a non-empty agency id, a numeric
\* procedure id and a role matching one of National, CMS, RMS; any other
\* reply leaves the form unchanged, starts no calculation and is appended
\* to the transcript as one assistant message, verbatim when it is a string.
C22_IntentsAppliedOnlyWhenValid == [][C22_StepAppliesIntentsOnly]_vars

\* a reply with every field but a role that is no option was appended as
\* one message next to a form filled by hand
C22_Witness ==
    /\ last.event = "reply"
    /\ last.payload = Intent(Str("A1"), Num(7), Str("Expert"))
    /\ selectedProcedure = Num(8)
    /\ Len(chatMessages) = 2
    /\ chatMessages[2] = createChatMessage("assistant", "{...}")
    /\ chat = Idle

\* the displayed result was computed for the selected agency, procedure
\* and role
ResultIsCurrent ==
    /\ feeResult.for.agencyId = Trim(selectedAgency)
    /\ feeResult.for.procedureId = selectedProcedure
    /\ feeResult.for.role = selectedRole

\* C23: under every interleaving of selection changes, Calculate clicks,
\* assistant intents and late responses of calculate-fee, a displayed
\* (non-null) feeResult was computed for the currently selected agency,
\* procedure and role: no response to a request issued before the selection
\* changed becomes the displayed result, and no failed calculation of an
\* intent leaves an older result displayed next to the new selection.
C23_DisplayedResultIsCurrent == feeResult.set => ResultIsCurrent

\* the handling of an assistant request has just ended
SettleEvents == {"reply", "intent.ok", "intent.failed", "assistant.failed"}

\* user and assistant messages alternate, the user's first
Alternates ==
    \A k \in 1..Len(chatMessages) :
        chatMessages[k].sender = IF k % 2 = 1 THEN "user" ELSE "assistant"

\* C24: at most one assistant request is in flight; an accepted send
\* appends exactly one user message, and when the request has settled, by
\* a plain reply, an intent whose calculation succeeded or failed, or a
\* failure, exactly one assistant message follows and isChatLoading is
\* false again: the transcript always alternates user and assistant.
C24_OneReplyPerSend ==
    /\ Alternates
    /\ isChatLoading <=> chat.pc \in {"await", "awaitFee"}
    /\ isChatLoading <=> Len(chatMessages) % 2 = 1
    /\ isChatLoading => chatInput = ""
    /\ last.event = "send" =>
          isChatLoading /\ chat.pc = "await"
    /\ last.event = "intent" => isChatLoading /\ chat.pc = "awaitFee"
    /\ last.event \in SettleEvents => ~isChatLoading /\ chat = Idle
    /\ last.event \in {"intent.failed", "assistant.failed"} =>
          Len(chatMessages) = last.chatLen + 1

\* two exchanges: an intent whose calculation failed, then a plain reply
C24_Witness ==
    /\ Len(chatMessages) = 4
    /\ chatMessages[2].content
          = "I tried to calculate the fee but ran into an issue: Failed to fetch"
    /\ chatMessages[4].content = "Which role applies?"
    /\ ~isChatLoading

=============================================================================
